---- MODULE Spec2Model ----
(***************************************************************************)
(* Model of Nutify's UPS data cache (core/db/ups/cache.py) and of the      *)
(* aggregator it calls (core/db/ups/aggregator.py).                        *)
(*                                                                         *)
(* Conventions of the model                                                *)
(*   - wall-clock instants are whole seconds counted from a midnight UTC;  *)
(*   - a float is a fixed-point integer counting hundredths (50.4 = 5040); *)
(*   - a Python value is tagged: Num(n) float, IntV(i) int, Txt(s) str,     *)
(*     Bool(b) bool, NaN the missing value pandas puts in a ragged frame;  *)
(*   - a str used as a status is the sequence of its characters, a dict    *)
(*     key is the sequence of its words and separator characters;          *)
(*   - a dict is the sequence of its <<key, value>> items in insertion     *)
(*     order; an Optional is <<>> (None) or <<x>>.                         *)
(***************************************************************************)
EXTENDS Integers, Sequences, FiniteSets, TLC

VARIABLES
    clock,                      \* datetime.now(pytz.UTC)
    enabled_devices,            \* ups_config_manager.get_all_enabled()
    size,                       \* UPSDataCache.size
    data,                       \* UPSDataCache.data
    df,                         \* UPSDataCache.df
    per_ups_data,               \* UPSDataCache.per_ups_data
    aggregated_data,            \* UPSDataCache.aggregated_data
    next_save_time,             \* UPSDataCache.next_save_time
    next_hour,                  \* UPSDataCache.next_hour
    hourly_data,                \* UPSDataCache.hourly_data
    last_daily_aggregation,     \* UPSDataCache.last_daily_aggregation
    last_broadcast,             \* UPSDataCache.last_broadcast
    last_broadcast_aggregated,  \* UPSDataCache.last_broadcast_aggregated
    last_broadcast_per_ups,     \* UPSDataCache.last_broadcast_per_ups
    persisted,                  \* rows of the UPSDynamicData table, in commit order
    emitted,                    \* events handed to websocket.emit, in order
    result,                     \* the last call made and the value it returned
    committed,                  \* what db.session.commit() did in the last call
    calls,                      \* number of calls made so far
    data_lock,                  \* the thread holding cache.data_lock, if any
    pc,                         \* per thread: position in save_ups_data
    local,                      \* per thread: the locals of the running call
    ups_devices,                \* rows of the ups_devices table, in id order
    manager                     \* the UPSConfigManager singleton

vars == <<clock, enabled_devices, size, data, df, per_ups_data, aggregated_data,
          next_save_time, next_hour, hourly_data, last_daily_aggregation,
          last_broadcast, last_broadcast_aggregated, last_broadcast_per_ups,
          persisted, emitted, result, committed, calls, data_lock, pc, local,
          ups_devices, manager>>

-----------------------------------------------------------------------------
(* Bounds of the model *)

MaxCalls == 4

\* Seconds the polling driver lets pass before a call: none, a minute and a
\* half, a day.
Jumps == {0, 90, 86400}

\* Seconds that pass before a direct flush check, or between polls of several
\* devices: none, a minute.
FlushJumps == {0, 60}

\* Wall-clock instant at which the process starts: 03:58:00.
StartTimes == {14280}

\* Calls of save_ups_data that two concurrent threads make between them, and
\* minutes that pass meanwhile.
MaxConcCalls == 3
MaxTicks == 1

-----------------------------------------------------------------------------
(* Calendar arithmetic of datetime / timedelta *)

Minute == 60
Hour == 3600
Day == 86400
DailyHour == 4

\* dt.replace(second=0, microsecond=0) and its coarser forms
FloorTo(t, unit) == t - (t % unit)

\* dt.hour
HourOf(t) == (t % Day) \div Hour

-----------------------------------------------------------------------------
(* Python values *)

None == <<>>
Some(x) == <<x>>
Val(o) == o[1]

Num(n) == [n |-> n]
IntV(i) == [i |-> i]
Txt(s) == [s |-> s]
Bool(b) == [b |-> b]
NaN == [nan |-> TRUE]

IsNum(v) == DOMAIN v = {"n"}
IsInt(v) == DOMAIN v = {"i"}
IsTxt(v) == DOMAIN v = {"s"}
IsBool(v) == DOMAIN v = {"b"}
IsNaN(v) == DOMAIN v = {"nan"}

\* round(total / count, 2) on hundredths: round half to even
RoundDiv(total, count) ==
    LET q == total \div count
        r == total % count
    IN  IF 2 * r < count THEN q
        ELSE IF 2 * r > count THEN q + 1
        ELSE IF q % 2 = 0 THEN q ELSE q + 1

Abs(x) == IF x < 0 THEN -x ELSE x

RECURSIVE SumSeq(_)
SumSeq(s) == IF s = <<>> THEN 0 ELSE Head(s) + SumSeq(Tail(s))

RECURSIVE SelectIdx(_, _, _)
\* the items s[i], i in order, for which keep[i] holds
SelectIdx(s, keep, i) ==
    IF i > Len(s) THEN <<>>
    ELSE (IF keep[i] THEN <<s[i]>> ELSE <<>>) \o SelectIdx(s, keep, i + 1)

(* dict *)
DictKeys(d) == [i \in DOMAIN d |-> d[i][1]]
DictHas(d, k) == \E i \in DOMAIN d : d[i][1] = k
DictGet(d, k) == d[CHOOSE i \in DOMAIN d : d[i][1] = k][2]
DictPut(d, k, v) ==
    IF DictHas(d, k)
    THEN [i \in DOMAIN d |-> IF d[i][1] = k THEN <<k, v>> ELSE d[i]]
    ELSE Append(d, <<k, v>>)
\* d.get(k, default)
DictGetOr(d, k, default) == IF DictHas(d, k) THEN DictGet(d, k) ELSE default
\* d.get(k), an Optional
DictFind(d, k) == IF DictHas(d, k) THEN Some(DictGet(d, k)) ELSE None

RECURSIVE DictUpdate(_, _)
\* {**d, **e}
DictUpdate(d, e) ==
    IF e = <<>> THEN d
    ELSE DictUpdate(DictPut(d, Head(e)[1], Head(e)[2]), Tail(e))

-----------------------------------------------------------------------------
(* Field names *)

K_ups_status == <<"ups", "_", "status">>
K_ups_load == <<"ups", "_", "load">>
K_ups_realpower == <<"ups", "_", "realpower">>
K_battery_charge == <<"battery", "_", "charge">>
K_battery_runtime == <<"battery", "_", "runtime">>
K_input_voltage == <<"input", "_", "voltage">>
K_output_voltage == <<"output", "_", "voltage">>
K_error == <<"error">>
K_ups_count == <<"ups", "_", "count">>
K_ups_online_count == <<"ups", "_", "online", "_", "count">>
K_ups_offline_count == <<"ups", "_", "offline", "_", "count">>
K_is_aggregated == <<"is", "_", "aggregated">>
K_source == <<"source">>

\* the same name in NUT's dot notation
Dotted(key) == [i \in DOMAIN key |-> IF key[i] = "_" THEN "." ELSE key[i]]

\* key.replace('.', '_')
key_replace(key) == [i \in DOMAIN key |-> IF key[i] = "." THEN "_" ELSE key[i]]

(* Status strings *)
S_OL == <<"O", "L">>
S_OB == <<"O", "B">>
S_LB == <<"L", "B">>
S_RB == <<"R", "B">>
S_OVER == <<"O", "V", "E", "R">>
S_CHRG == <<"C", "H", "R", "G">>
S_OB_DISCHRG == <<"O", "B", " ", "D", "I", "S", "C", "H", "R", "G">>
S_OFFLINE == <<"O", "F", "F", "L", "I", "N", "E">>
S_UNKNOWN == <<"U", "N", "K", "N", "O", "W", "N">>
S_ERROR == <<"E", "R", "R", "O", "R">>
S_multi_ups_aggregation == <<"multi_ups_aggregation">>

-----------------------------------------------------------------------------
(* aggregator.py *)

\* str.upper(), on the characters the statuses of the model are written in
UpperChar(ch) ==
    CASE ch = "o" -> "O" [] ch = "l" -> "L" [] ch = "b" -> "B"
      [] ch = "c" -> "C" [] ch = "h" -> "H" [] ch = "r" -> "R"
      [] ch = "g" -> "G" [] OTHER -> ch
\* the string left as it is written
upper_same(s) == s

upper(s) == [i \in DOMAIN s |-> UpperChar(s[i])]

\* str.strip()
RECURSIVE lstrip(_)
lstrip(s) == IF s # <<>> /\ Head(s) = " " THEN lstrip(Tail(s)) ELSE s
RECURSIVE rstrip(_)
rstrip(s) ==
    IF s # <<>> /\ s[Len(s)] = " " THEN rstrip(SubSeq(s, 1, Len(s) - 1)) ELSE s
strip(s) == rstrip(lstrip(s))

\* sub in s
Contains(sub, s) ==
    \E i \in 1..(Len(s) - Len(sub) + 1) : SubSeq(s, i, i + Len(sub) - 1) = sub

\* the table with ERROR ranked above every status a device reports
STATUS_PRIORITY_failures ==
    << <<S_OB_DISCHRG, 7>>, <<S_OB, 6>>, <<S_LB, 5>>, <<S_RB, 4>>, <<S_OVER, 3>>,
       <<S_CHRG, 2>>, <<S_OL, 1>>, <<S_OFFLINE, 8>>, <<S_UNKNOWN, 0>>, <<S_ERROR, 9>> >>

\* STATUS_PRIORITY, in the order the dict literal lists it
STATUS_PRIORITY ==
    << <<S_OB_DISCHRG, 7>>, <<S_OB, 6>>, <<S_LB, 5>>, <<S_RB, 4>>, <<S_OVER, 3>>,
       <<S_CHRG, 2>>, <<S_OL, 1>>, <<S_OFFLINE, 8>>, <<S_UNKNOWN, 0>> >>

Max(a, b) == IF a >= b THEN a ELSE b
Min(a, b) == IF a <= b THEN a ELSE b

RECURSIVE ScanPriority(_, _, _)
\* the loop "for key in STATUS_PRIORITY: if key in status: max_priority = max(..)"
ScanPriority(status, table, max_priority) ==
    IF table = <<>> THEN max_priority
    ELSE ScanPriority(status, Tail(table),
             IF Contains(Head(table)[1], status)
             THEN Max(max_priority, Head(table)[2]) ELSE max_priority)

get_status_priority(status) ==
    IF status = None \/ Val(status) = <<>> THEN DictGet(STATUS_PRIORITY, S_UNKNOWN)
    ELSE LET st == strip(upper(Val(status)))
         IN  IF DictHas(STATUS_PRIORITY, st) THEN DictGet(STATUS_PRIORITY, st)
             ELSE LET max_priority == ScanPriority(st, STATUS_PRIORITY, 0)
                  IN  IF max_priority > 0 THEN max_priority
                      ELSE DictGet(STATUS_PRIORITY, S_UNKNOWN)

RECURSIVE WorstLoop_last(_, _, _)
\* the loop replacing the worst status on an equal priority too
WorstLoop_last(statuses, worst_status, worst_priority) ==
    IF statuses = <<>> THEN worst_status
    ELSE LET priority == get_status_priority(Head(statuses))
         IN  IF priority >= worst_priority
             THEN WorstLoop_last(Tail(statuses), Head(statuses), priority)
             ELSE WorstLoop_last(Tail(statuses), worst_status, worst_priority)

RECURSIVE WorstLoop(_, _, _)
WorstLoop(statuses, worst_status, worst_priority) ==
    IF statuses = <<>> THEN worst_status
    ELSE LET priority == get_status_priority(Head(statuses))
         IN  IF priority > worst_priority
             THEN WorstLoop(Tail(statuses), Head(statuses), priority)
             ELSE WorstLoop(Tail(statuses), worst_status, worst_priority)

\* statuses: a list of Optional status strings; the result is one of them
get_worst_status(statuses) ==
    IF statuses = <<>> THEN Some(S_UNKNOWN)
    ELSE WorstLoop(Tail(statuses), Head(statuses),
                   get_status_priority(Head(statuses)))

\* float(value): <<x>> in hundredths, or None when float() raises
ToFloat(v) ==
    CASE IsNum(v) -> Some(v.n)
      [] IsInt(v) -> Some(100 * v.i)
      [] IsBool(v) -> Some(IF v.b THEN 100 ELSE 0)
      [] OTHER -> None

\* safe_float(value), value an Optional
safe_float(value) ==
    IF value = None THEN 0
    ELSE IF ToFloat(Val(value)) = None THEN 0 ELSE Val(ToFloat(Val(value)))

\* safe_get(data, key, safe_get(data, dotted key, default)), an Optional
safe_get2(ups_data, key, default) ==
    IF DictHas(ups_data, key) THEN Some(DictGet(ups_data, key))
    ELSE IF DictHas(ups_data, Dotted(key)) THEN Some(DictGet(ups_data, Dotted(key)))
    ELSE default

\* the status of one device as aggregate_ups_data reads it (a str or None)
StatusOf(ups_data) ==
    LET v == safe_get2(ups_data, K_ups_status, Some(Txt(S_UNKNOWN)))
    IN  IF v # None /\ IsTxt(Val(v)) THEN Some(Val(v).s) ELSE None

IsOnline(status) ==
    /\ status # None
    /\ Val(status) # <<>>
    /\ (Contains(S_OL, upper(Val(status))) \/ Contains(S_CHRG, upper(Val(status))))

\* the values of one metric over the devices, through safe_float
MetricOf(ups_list, key) ==
    [i \in DOMAIN ups_list |-> safe_float(safe_get2(ups_list[i], key, Some(IntV(0))))]

Positive(values) == SelectIdx(values, [i \in DOMAIN values |-> values[i] > 0], 1)

\* the mean over every device, those reporting 0 included
AvgPositive_all(values) == 10 * RoundDiv(SumSeq(values), 10 * Len(values))

\* round(total / count, 1) if count > 0 else 0.0, in hundredths
AvgPositive(values) ==
    LET pos == Positive(values)
    IN  IF Len(pos) > 0 THEN 10 * RoundDiv(SumSeq(pos), 10 * Len(pos)) ELSE 0

RECURSIVE MinSeq(_)
MinSeq(s) == IF Len(s) = 1 THEN s[1] ELSE Min(Head(s), MinSeq(Tail(s)))

\* round(min_runtime, 0) if min_runtime is not None else 0
MinPositive(values) ==
    LET pos == Positive(values)
    IN  IF Len(pos) > 0 THEN Num(100 * RoundDiv(MinSeq(pos), 100)) ELSE IntV(0)

\* With both spellings of a metric, as the dict literal writes them
Both(key, value) == << <<key, value>>, <<Dotted(key), value>> >>

\* all_ups_data: a dict {ups_id: reading}
aggregate_ups_data(all_ups_data) ==
    LET ups_list == [i \in DOMAIN all_ups_data |-> all_ups_data[i][2]]
    IN  IF ups_list = <<>>
        THEN << <<K_ups_status, Txt(S_UNKNOWN)>>, <<K_ups_realpower, Num(0)>>,
                <<K_ups_load, Num(0)>>, <<K_battery_charge, Num(0)>>,
                <<K_battery_runtime, Num(0)>>, <<K_input_voltage, Num(0)>>,
                <<K_output_voltage, Num(0)>>, <<K_ups_count, IntV(0)>>,
                <<K_ups_online_count, IntV(0)>> >>
        ELSE LET statuses == [i \in DOMAIN ups_list |-> StatusOf(ups_list[i])]
                 online_count ==
                     Cardinality({i \in DOMAIN statuses : IsOnline(statuses[i])})
                 ups_count == Len(ups_list)
                 worst == get_worst_status(statuses)
                 worst_status == IF worst = None THEN NaN ELSE Txt(Val(worst))
                 total_realpower == SumSeq(MetricOf(ups_list, K_ups_realpower))
             IN  Both(K_ups_status, worst_status)
                 \o Both(K_ups_realpower, Num(total_realpower))
                 \o Both(K_ups_load, Num(AvgPositive(MetricOf(ups_list, K_ups_load))))
                 \o Both(K_battery_charge,
                         Num(AvgPositive(MetricOf(ups_list, K_battery_charge))))
                 \o Both(K_battery_runtime,
                         MinPositive(MetricOf(ups_list, K_battery_runtime)))
                 \o Both(K_input_voltage,
                         Num(AvgPositive(MetricOf(ups_list, K_input_voltage))))
                 \o Both(K_output_voltage,
                         Num(AvgPositive(MetricOf(ups_list, K_output_voltage))))
                 \o << <<K_ups_count, IntV(ups_count)>>,
                       <<K_ups_online_count, IntV(online_count)>>,
                       <<K_ups_offline_count, IntV(ups_count - online_count)>>,
                       <<K_is_aggregated, Bool(TRUE)>>,
                       <<K_source, Txt(S_multi_ups_aggregation)>> >>

-----------------------------------------------------------------------------
(* cache.py: UPSDataCache *)

K_timestamp == <<"timestamp">>
Time(t) == [t |-> t]

\* The cache instance, the UPSDynamicData table and the socket, as one value
\* that the methods below take and give back.
St ==
    [size |-> size, data |-> data, df |-> df, per_ups_data |-> per_ups_data,
     aggregated_data |-> aggregated_data, next_save_time |-> next_save_time,
     next_hour |-> next_hour, hourly_data |-> hourly_data,
     last_daily_aggregation |-> last_daily_aggregation,
     last_broadcast |-> last_broadcast,
     last_broadcast_aggregated |-> last_broadcast_aggregated,
     last_broadcast_per_ups |-> last_broadcast_per_ups,
     persisted |-> persisted, emitted |-> emitted]

\* UPSDataCache.__init__(size)
NewCache(sz) ==
    [size |-> sz, data |-> <<>>, df |-> None, per_ups_data |-> <<>>,
     aggregated_data |-> <<>>, next_save_time |-> None, next_hour |-> None,
     hourly_data |-> <<>>, last_daily_aggregation |-> None,
     last_broadcast |-> None, last_broadcast_aggregated |-> None,
     last_broadcast_per_ups |-> <<>>, persisted |-> <<>>, emitted |-> <<>>]

\* get_next_hour with the "replace(minute=0, second=0, microsecond=0)" left out
get_next_hour_unaligned(utc_time) == utc_time + Hour

\* utc_time is the instant datetime.now(pytz.UTC) gives inside the method
get_next_hour(utc_time) == FloorTo(utc_time, Hour) + Hour

\* get_next_minute with the "+ timedelta(minutes=1)" left out
get_next_minute_floor(utc_time) == FloorTo(utc_time, Minute)

get_next_minute(utc_time) == FloorTo(utc_time, Minute) + Minute

\* is_save_time with ">" for ">="
is_save_time_after(c, current_utc) ==
    IF c.next_save_time = None THEN FALSE
    ELSE current_utc > Val(c.next_save_time)

\* is_save_time that also finds a full buffer due
is_save_time_full(c, current_utc) ==
    IF c.next_save_time = None THEN FALSE
    ELSE current_utc >= Val(c.next_save_time) \/ Len(c.data) >= c.size

is_save_time(c, current_utc) ==
    IF c.next_save_time = None THEN FALSE
    ELSE current_utc >= Val(c.next_save_time)

is_full(c) == Len(c.data) >= c.size

(* calculate_averages: the pandas reduction of the frame *)

RECURSIVE AddKeys(_, _)
AddKeys(cols, keys) ==
    IF keys = <<>> THEN cols
    ELSE AddKeys(IF \E i \in DOMAIN cols : cols[i] = Head(keys)
                 THEN cols ELSE Append(cols, Head(keys)),
                 Tail(keys))

RECURSIVE ColumnsOf(_, _)
\* the columns of pd.DataFrame(rows), in order of first appearance
ColumnsOf(rows, cols) ==
    IF rows = <<>> THEN cols
    ELSE ColumnsOf(Tail(rows), AddKeys(cols, DictKeys(Head(rows)[2])))

\* one column of the frame; a row without the field holds NaN
ColumnValues(rows, key) == [i \in DOMAIN rows |-> DictGetOr(rows[i][2], key, NaN)]

\* the column's dtype is a np.number
IsNumericColumn(values) ==
    \A i \in DOMAIN values : IsNum(values[i]) \/ IsInt(values[i]) \/ IsNaN(values[i])

\* the mean with the rows that lack the field counted in the denominator
ColumnMean_all(values) ==
    LET present == SelectIdx(values, [i \in DOMAIN values |-> ~IsNaN(values[i])], 1)
        floats == [i \in DOMAIN present |-> Val(ToFloat(present[i]))]
    IN  IF present = <<>> THEN NaN ELSE Num(RoundDiv(SumSeq(floats), Len(values)))

\* Series.mean().round(2): NaN is skipped
ColumnMean(values) ==
    LET present == SelectIdx(values, [i \in DOMAIN values |-> ~IsNaN(values[i])], 1)
        floats == [i \in DOMAIN present |-> Val(ToFloat(present[i]))]
    IN  IF present = <<>> THEN NaN ELSE Num(RoundDiv(SumSeq(floats), Len(floats)))

\* the reduction of a frame with the given rows and columns
ReduceColumns(rows, cols) ==
    LET numeric == [i \in DOMAIN cols |-> IsNumericColumn(ColumnValues(rows, cols[i]))]
        averages == [i \in DOMAIN cols |->
                        IF numeric[i]
                        THEN <<cols[i], ColumnMean(ColumnValues(rows, cols[i]))>>
                        ELSE <<cols[i], DictGetOr(rows[Len(rows)][2], cols[i], NaN)>>]
    IN  \* {**averages, **last_values}: the numeric columns first
        SelectIdx(averages, numeric, 1)
        \o SelectIdx(averages, [i \in DOMAIN cols |-> ~numeric[i]], 1)

\* frame: an Optional list of <<timestamp, dict>> rows; the result is None or a dict
calculate_averages(frame) ==
    IF frame = None \/ Val(frame) = <<>> THEN None
    ELSE CHOOSE averages \in {Some(ReduceColumns(rows, cols)) :
                                  rows \in {Val(frame)},
                                  cols \in {ColumnsOf(Val(frame), <<>>)}} : TRUE

(* broadcast_cache_update / broadcast_multi_ups_update: the change gate *)

important_metrics == <<K_ups_load, K_battery_charge, K_ups_realpower, K_input_voltage>>

\* the threshold "abs(current_val - last_val) >= 1.0", in hundredths
Threshold == 100

\* float(x or 0): <<value>>, or None when it raises
FloatOrZero(v) ==
    IF IsTxt(v) /\ v.s = <<>> THEN Some(0) ELSE ToFloat(v)

RECURSIVE MetricLoop(_, _, _)
\* the loop over important_metrics; TRUE when it sets the flag and breaks
MetricLoop(metrics, current, last) ==
    IF metrics = <<>> THEN FALSE
    ELSE LET metric == Head(metrics)
         IN  IF DictHas(current, metric) /\ DictHas(last, metric)
             THEN LET current_val == FloatOrZero(DictGet(current, metric))
                      last_val == FloatOrZero(DictGet(last, metric))
                  IN  IF current_val = None \/ last_val = None THEN TRUE
                      ELSE IF Abs(Val(current_val) - Val(last_val)) >= Threshold THEN TRUE
                      ELSE MetricLoop(Tail(metrics), current, last)
             ELSE MetricLoop(Tail(metrics), current, last)

\* a comparison of the two statuses that never finds them different
StatusDiffers_never(a, b) == FALSE

\* a.get('ups_status') != b.get('ups_status')
StatusDiffers(a, b) ==
    DictFind(a, K_ups_status) # DictFind(b, K_ups_status)

\* whether broadcast_cache_update goes on to emit
ShouldBroadcast(last, broadcast_data) ==
    IF last # None
    THEN LET status_changed == StatusDiffers(broadcast_data, Val(last))
             significant_change == MetricLoop(important_metrics, broadcast_data, Val(last))
         IN  ~(~status_changed /\ ~significant_change)
    ELSE TRUE

\* broadcast_cache_update remembering every view it is given, published or not
broadcast_cache_update_seen(c, d, now) ==
    IF d = <<>> THEN c
    ELSE LET broadcast_data == DictUpdate(<< <<K_timestamp, Time(now)>> >>, d)
         IN  IF ShouldBroadcast(c.last_broadcast, broadcast_data)
             THEN [c EXCEPT !.last_broadcast = Some(broadcast_data),
                            !.emitted = Append(@, [event |-> "cache_update",
                                                   payload |-> broadcast_data])]
             ELSE [c EXCEPT !.last_broadcast = Some(broadcast_data)]

broadcast_cache_update(c, d, now) ==
    IF d = <<>> THEN c
    ELSE LET broadcast_data == DictUpdate(<< <<K_timestamp, Time(now)>> >>, d)
         IN  IF ShouldBroadcast(c.last_broadcast, broadcast_data)
             THEN [c EXCEPT !.last_broadcast = Some(broadcast_data),
                            !.emitted = Append(@, [event |-> "cache_update",
                                                   payload |-> broadcast_data])]
             ELSE c

get_latest_cache_data(c) == IF c.last_broadcast = None THEN <<>> ELSE Val(c.last_broadcast)

\* whether broadcast_multi_ups_update goes on to emit
ShouldBroadcastMulti(last, broadcast_aggregated) ==
    LET first == last = None \/ StatusDiffers(broadcast_aggregated, Val(last))
    IN  IF first THEN TRUE
        ELSE IF last # None
        THEN MetricLoop(important_metrics, broadcast_aggregated, Val(last))
        ELSE FALSE

\* broadcast_multi_ups_update remembering every view it is given, published or not
broadcast_multi_ups_update_seen(c, aggregated, per_ups, now) ==
    IF aggregated = <<>> THEN c
    ELSE LET broadcast_aggregated == DictUpdate(<< <<K_timestamp, Time(now)>> >>, aggregated)
             broadcast_per_ups ==
                 [i \in DOMAIN per_ups |->
                     <<per_ups[i][1],
                       DictUpdate(<< <<K_timestamp, Time(now)>> >>, per_ups[i][2])>>]
         IN  IF ShouldBroadcastMulti(c.last_broadcast_aggregated, broadcast_aggregated)
             THEN [c EXCEPT !.last_broadcast_aggregated = Some(broadcast_aggregated),
                            !.last_broadcast_per_ups = broadcast_per_ups,
                            !.emitted = Append(@, [event |-> "multi_ups_update",
                                                   payload |-> [aggregated |-> broadcast_aggregated,
                                                                individual |-> broadcast_per_ups,
                                                                ups_count |-> Len(per_ups)]])]
             ELSE [c EXCEPT !.last_broadcast_aggregated = Some(broadcast_aggregated),
                            !.last_broadcast_per_ups = broadcast_per_ups]

\* broadcast_multi_ups_update replacing the per-device views on every call
broadcast_multi_ups_update_devices(c, aggregated, per_ups, now) ==
    IF aggregated = <<>> THEN c
    ELSE LET broadcast_aggregated == DictUpdate(<< <<K_timestamp, Time(now)>> >>, aggregated)
             broadcast_per_ups ==
                 [i \in DOMAIN per_ups |->
                     <<per_ups[i][1],
                       DictUpdate(<< <<K_timestamp, Time(now)>> >>, per_ups[i][2])>>]
         IN  IF ShouldBroadcastMulti(c.last_broadcast_aggregated, broadcast_aggregated)
             THEN [c EXCEPT !.last_broadcast_aggregated = Some(broadcast_aggregated),
                            !.last_broadcast_per_ups = broadcast_per_ups,
                            !.emitted = Append(@, [event |-> "multi_ups_update",
                                                   payload |-> [aggregated |-> broadcast_aggregated,
                                                                individual |-> broadcast_per_ups,
                                                                ups_count |-> Len(per_ups)]])]
             ELSE [c EXCEPT !.last_broadcast_per_ups = broadcast_per_ups]

broadcast_multi_ups_update(c, aggregated, per_ups, now) ==
    IF aggregated = <<>> THEN c
    ELSE LET broadcast_aggregated == DictUpdate(<< <<K_timestamp, Time(now)>> >>, aggregated)
             broadcast_per_ups ==
                 [i \in DOMAIN per_ups |->
                     <<per_ups[i][1],
                       DictUpdate(<< <<K_timestamp, Time(now)>> >>, per_ups[i][2])>>]
         IN  IF ShouldBroadcastMulti(c.last_broadcast_aggregated, broadcast_aggregated)
             THEN [c EXCEPT !.last_broadcast_aggregated = Some(broadcast_aggregated),
                            !.last_broadcast_per_ups = broadcast_per_ups,
                            !.emitted = Append(@, [event |-> "multi_ups_update",
                                                   payload |-> [aggregated |-> broadcast_aggregated,
                                                                individual |-> broadcast_per_ups,
                                                                ups_count |-> Len(per_ups)]])]
             ELSE c

get_latest_multi_ups_data(c) ==
    IF c.last_broadcast_aggregated = None THEN <<>>
    ELSE [aggregated |-> Val(c.last_broadcast_aggregated),
          individual |-> c.last_broadcast_per_ups,
          ups_count |-> Len(c.last_broadcast_per_ups)]

(* add / add_multi_ups *)

RECURSIVE FormatKeys(_, _)
\* the loop "formatted_data[key.replace('.', '_')] = value"
FormatKeys(items, formatted_data) ==
    IF items = <<>> THEN formatted_data
    ELSE FormatKeys(Tail(items),
                    DictPut(formatted_data, key_replace(Head(items)[1]), Head(items)[2]))

\* add keeping the newest sample only
add_latest(c, timestamp, d, now) ==
    LET c1 == IF c.next_save_time = None
              THEN [c EXCEPT !.next_save_time = Some(get_next_minute(now))] ELSE c
        formatted_data == FormatKeys(d, <<>>)
        buffer == << <<timestamp, formatted_data>> >>
        c2 == [c1 EXCEPT !.data = buffer, !.df = Some(buffer)]
    IN  broadcast_cache_update(c2, formatted_data, now)

add(c, timestamp, d, now) ==
    LET c1 == IF c.next_save_time = None
              THEN [c EXCEPT !.next_save_time = Some(get_next_minute(now))] ELSE c
        formatted_data == FormatKeys(d, <<>>)
        buffer == Append(c1.data, <<timestamp, formatted_data>>)
        c2 == [c1 EXCEPT !.data = buffer, !.df = Some(buffer)]
    IN  broadcast_cache_update(c2, formatted_data, now)

RECURSIVE AppendPerUps_replace(_, _, _)
\* the loop starting the buffer of each device anew
AppendPerUps_replace(items, timestamp, per_ups) ==
    IF items = <<>> THEN per_ups
    ELSE LET ups_id == Head(items)[1]
             formatted_data == FormatKeys(Head(items)[2], <<>>)
         IN  AppendPerUps_replace(Tail(items), timestamp,
                                  DictPut(per_ups, ups_id, << <<timestamp, formatted_data>> >>))

RECURSIVE AppendPerUps(_, _, _)
\* the loop over all_ups_data.items() that fills per_ups_data
AppendPerUps(items, timestamp, per_ups) ==
    IF items = <<>> THEN per_ups
    ELSE LET ups_id == Head(items)[1]
             formatted_data == FormatKeys(Head(items)[2], <<>>)
             buffer == DictGetOr(per_ups, ups_id, <<>>)
         IN  AppendPerUps(Tail(items), timestamp,
                          DictPut(per_ups, ups_id, Append(buffer, <<timestamp, formatted_data>>)))

add_multi_ups(c, timestamp, all_ups_data, now) ==
    LET c1 == IF c.next_save_time = None
              THEN [c EXCEPT !.next_save_time = Some(get_next_minute(now))] ELSE c
        aggregated == aggregate_ups_data(all_ups_data)
        c2 == [c1 EXCEPT !.per_ups_data = AppendPerUps(all_ups_data, timestamp, @),
                         !.aggregated_data = Append(@, <<timestamp, aggregated>>)]
    IN  broadcast_multi_ups_update(c2, aggregated, all_ups_data, now)

(* The UPSDynamicData table *)

\* a row: its timestamp_utc, the averaged columns, and the two rollup columns
Row(timestamp_utc, values, hrs, days) ==
    [timestamp_utc |-> timestamp_utc, values |-> values,
     ups_realpower_hrs |-> hrs, ups_realpower_days |-> days]

\* row.ups_realpower, an Optional
RowPower(row) ==
    IF DictHas(row.values, K_ups_realpower) /\ ToFloat(DictGet(row.values, K_ups_realpower)) # None
    THEN ToFloat(DictGet(row.values, K_ups_realpower)) ELSE None

\* the filter timestamp_utc >= start, timestamp_utc < end
RowsBetween(table, start, end) ==
    SelectIdx(table, [i \in DOMAIN table |->
                         table[i].timestamp_utc >= start /\ table[i].timestamp_utc < end], 1)

\* the hourly average written to ups_realpower_hrs, an Optional
HourlyAverage(table, exact_hour, hour_end) ==
    LET hour_data == RowsBetween(table, exact_hour, hour_end)
        powers == SelectIdx([i \in DOMAIN hour_data |-> RowPower(hour_data[i])],
                            [i \in DOMAIN hour_data |-> RowPower(hour_data[i]) # None], 1)
    IN  IF powers = <<>> THEN None
        ELSE Some(RoundDiv(SumSeq([i \in DOMAIN powers |-> Val(powers[i])]), Len(powers)))

\* should_aggregate_daily with the "Update for next day" left out
should_aggregate_daily_stay(c, now_utc) ==
    IF c.last_daily_aggregation = None
    THEN LET day_start == FloorTo(now_utc, Day) + DailyHour * Hour
         IN  [c |-> [c EXCEPT !.last_daily_aggregation =
                        Some(IF HourOf(now_utc) >= DailyHour THEN day_start + Day ELSE day_start)],
              ret |-> FALSE]
    ELSE [c |-> c, ret |-> now_utc >= Val(c.last_daily_aggregation)]

\* should_aggregate_daily with "if now_utc.hour >= 4" left out of the first check
should_aggregate_daily_today(c, now_utc) ==
    IF c.last_daily_aggregation = None
    THEN [c |-> [c EXCEPT !.last_daily_aggregation =
                    Some(FloorTo(now_utc, Day) + DailyHour * Hour)],
          ret |-> FALSE]
    ELSE IF now_utc >= Val(c.last_daily_aggregation)
    THEN [c |-> [c EXCEPT !.last_daily_aggregation = Some(Val(@) + Day)], ret |-> TRUE]
    ELSE [c |-> c, ret |-> FALSE]

should_aggregate_daily(c, now_utc) ==
    IF c.last_daily_aggregation = None
    THEN LET day_start == FloorTo(now_utc, Day) + DailyHour * Hour
         IN  [c |-> [c EXCEPT !.last_daily_aggregation =
                        Some(IF HourOf(now_utc) >= DailyHour THEN day_start + Day ELSE day_start)],
              ret |-> FALSE]
    ELSE IF now_utc >= Val(c.last_daily_aggregation)
    THEN [c |-> [c EXCEPT !.last_daily_aggregation = Some(Val(@) + Day)], ret |-> TRUE]
    ELSE [c |-> c, ret |-> FALSE]

\* db_ok: the query and the commit go through
aggregate_daily_data(c, now_utc, db_ok) ==
    LET aggregation_time == FloorTo(now_utc, Day)
        day_rows == RowsBetween(c.persisted, aggregation_time - Day, aggregation_time)
        hrs == SelectIdx([i \in DOMAIN day_rows |-> day_rows[i].ups_realpower_hrs],
                         [i \in DOMAIN day_rows |-> day_rows[i].ups_realpower_hrs # None], 1)
        total == SumSeq([i \in DOMAIN hrs |-> Val(hrs[i])])
    IN  IF ~db_ok THEN c
        ELSE IF hrs # <<>> /\ total # 0
        THEN [c EXCEPT !.persisted =
                 Append(@, Row(aggregation_time - Day, <<>>, None,
                               Some(RoundDiv(total, Len(hrs)))))]
        ELSE c

\* the record stamped with the clock instead of the boundary
RollupStamp_now(c, utc_now) == utc_now

\* "dynamic_data.timestamp_utc = self.next_save_time"
RollupStamp(c, utc_now) == Val(c.next_save_time)

\* What the database may do during one flush
DbOutcomes == {"ok", "query_fails", "commit_fails", "daily_fails"}

\* utc_now: the clock up to the commit; after: the clock once the commit is done.
\* Gives the cache back with the value returned and with what the commit of
\* the minute record did: None when it is not reached, Some(FALSE) when it raises.
calculate_and_save_averages(c, utc_now, after, db) ==
    LET c1 == IF c.next_hour = None
              THEN [c EXCEPT !.next_hour = Some(get_next_hour(utc_now))] ELSE c
        averages == calculate_averages(c1.df)
    IN  IF ~is_save_time(c1, utc_now) THEN [c |-> c1, ret |-> FALSE, commit |-> None]
        ELSE IF averages = None \/ Val(averages) = <<>>
        THEN [c |-> c1, ret |-> FALSE, commit |-> None]
        ELSE
        LET stamp == RollupStamp(c1, utc_now)
            has_power == DictHas(Val(averages), K_ups_realpower)
            c2 == IF has_power
                  THEN [c1 EXCEPT !.hourly_data =
                           Append(@, [timestamp |-> stamp,
                                      ups_realpower |-> DictGet(Val(averages), K_ups_realpower)])]
                  ELSE c1
            hour_due == has_power /\ utc_now >= Val(c2.next_hour)
            hrs == IF hour_due
                   THEN HourlyAverage(c2.persisted, Val(c2.next_hour) - Hour, Val(c2.next_hour))
                   ELSE None
            c3 == IF hour_due
                  THEN [c2 EXCEPT !.hourly_data = <<>>,
                                  !.next_hour = Some(get_next_hour(utc_now))]
                  ELSE c2
        IN  IF hour_due /\ db = "query_fails" THEN [c |-> c2, ret |-> FALSE, commit |-> None]
            ELSE IF db = "commit_fails" THEN [c |-> c3, ret |-> FALSE, commit |-> Some(FALSE)]
            ELSE
            LET c4 == [c3 EXCEPT !.persisted = Append(@, Row(stamp, Val(averages), hrs, None)),
                                 !.data = <<>>,
                                 !.df = None,
                                 !.next_save_time = Some(get_next_minute(after))]
                daily == should_aggregate_daily(c4, after)
            IN  [c |-> IF daily.ret
                       THEN aggregate_daily_data(daily.c, after, db # "daily_fails")
                       ELSE daily.c,
                 ret |-> TRUE, commit |-> Some(TRUE)]

-----------------------------------------------------------------------------
(* data.py: what get_ups_data / get_all_ups_data hand to the cache *)

K_ups_id == <<"ups", "_", "id">>
S_error_msg == <<"UPS command failed">>

\* a parsed upsc output: floats where float() succeeds, str otherwise
Reading(status, load, realpower) ==
    << <<K_ups_status, Txt(status)>>, <<K_ups_load, Num(load)>>,
       <<K_ups_realpower, Num(realpower)>>, <<K_battery_charge, Num(10000)>> >>

\* the reading returned when the upsc command fails
ErrorReading ==
    << <<K_ups_status, Txt(S_ERROR)>>, <<K_battery_charge, Num(0)>>,
       <<K_battery_runtime, IntV(0)>>, <<K_input_voltage, Num(0)>>,
       <<K_output_voltage, Num(0)>>, <<K_error, Txt(S_error_msg)>> >>

\* get_all_ups_data puts the device's id first in a failed reading, last in a parsed one
WithId(ups_id, reading) ==
    IF DictHas(reading, K_error)
    THEN << <<K_ups_id, IntV(ups_id)>> >> \o reading
    ELSE Append(reading, <<K_ups_id, IntV(ups_id)>>)

\* Readings get_ups_data returns in the runs of the model
Readings == {Reading(S_OL, 5000, 10000), ErrorReading}

\* "polling_interval = config.polling_interval if config else 1"
DefaultInterval == 1

\* the initial size, cache_seconds
CacheSeconds == 60
MinBufferSize == 5

\* "Adjust cache size based on polling interval"
AdjustSize(c, polling_interval) ==
    IF polling_interval > 1
    THEN [c EXCEPT !.size = Max(MinBufferSize, CacheSeconds \div polling_interval)]
    ELSE c

-----------------------------------------------------------------------------
(* orm_ups_devices.py: the ups_devices table. A row keeps the columns the
   handlers and the manager read; order_index is left at its default, so that
   "ORDER BY order_index, id" is the order of the ids *)

DeviceRow(id, name, is_enabled, is_primary) ==
    [id |-> id, name |-> name, is_enabled |-> is_enabled, is_primary |-> is_primary]

\* the names of the devices of the runs, by id
DeviceNames == <<"a", "b", "c">>

\* cls.query.filter_by(id=ups_id).first(), an Optional
UPSDevice_get_by_id(table, ups_id) ==
    IF \E i \in DOMAIN table : table[i].id = ups_id
    THEN Some(table[CHOOSE i \in DOMAIN table : table[i].id = ups_id])
    ELSE None

\* cls.query.filter_by(name=name).first(), an Optional
UPSDevice_get_by_name(table, name) ==
    IF \E i \in DOMAIN table : table[i].name = name
    THEN Some(table[CHOOSE i \in DOMAIN table : table[i].name = name
                       /\ \A k \in 1..(i - 1) : table[k].name # name])
    ELSE None

\* cls.query.filter_by(is_enabled=True).count()
EnabledCount(table) == Cardinality({i \in DOMAIN table : table[i].is_enabled})

\* the rowid of a new row: one more than the greatest
NextId(table) == IF table = <<>> THEN 1 ELSE table[Len(table)].id + 1

\* the table with the row of that id replaced
PutRow(table, row) ==
    [i \in DOMAIN table |-> IF table[i].id = row.id THEN row ELSE table[i]]

\* the unique index on name lets the commit through
NamesUnique(table) ==
    \A i, k \in DOMAIN table : i # k => table[i].name # table[k].name

\* create_device: the table after the call, and whether it raised
UPSDevice_create_device(table, kwargs) ==
    LET new_device == DeviceRow(NextId(table), kwargs.name, kwargs.is_enabled,
                                kwargs.is_primary)
    IN  IF NamesUnique(Append(table, new_device))
        THEN [table |-> Append(table, new_device), ret |-> Some(new_device), raised |-> FALSE]
        ELSE [table |-> table, ret |-> None, raised |-> TRUE]

RECURSIVE SetAttrs(_, _)
\* "for key, value in kwargs.items(): if hasattr(device, key): setattr(..)"
SetAttrs(device, kwargs) ==
    IF kwargs = <<>> THEN device
    ELSE LET key == Head(kwargs)[1]
             value == Head(kwargs)[2]
         IN  SetAttrs(CASE key = "name" -> [device EXCEPT !.name = value]
                        [] key = "is_enabled" -> [device EXCEPT !.is_enabled = value]
                        [] key = "is_primary" -> [device EXCEPT !.is_primary = value]
                        [] OTHER -> device,
                      Tail(kwargs))

\* update_device of the model class: the table after the call, the value
\* returned (an Optional) and whether the call raised
UPSDevice_update_device(table, ups_id, kwargs) ==
    LET device == UPSDevice_get_by_id(table, ups_id)
    IN  IF device = None THEN [table |-> table, ret |-> None, raised |-> TRUE]
        ELSE LET updated == PutRow(table, SetAttrs(Val(device), kwargs))
             IN  IF NamesUnique(updated)
                 THEN [table |-> updated, ret |-> Some(SetAttrs(Val(device), kwargs)),
                       raised |-> FALSE]
                 ELSE [table |-> table, ret |-> None, raised |-> TRUE]

\* delete_device of the model class; it has no return statement
UPSDevice_delete_device(table, ups_id) ==
    LET device == UPSDevice_get_by_id(table, ups_id)
    IN  IF Len(table) <= 1 \/ device = None
        THEN [table |-> table, ret |-> None, raised |-> TRUE]
        ELSE [table |-> SelectIdx(table, [i \in DOMAIN table |-> table[i].id # ups_id], 1),
              ret |-> None, raised |-> FALSE]

-----------------------------------------------------------------------------
(* utils.py: UPSConfigManager. The devices map is a sequence of
   <<ups_id, config>> in insertion order. Every method gives the manager
   after the call, the value returned, and how many times the call read the
   database and the NUT configuration files *)

UPSSingleConfig(ups_id, name, is_primary, is_enabled) ==
    [ups_id |-> ups_id, name |-> name, is_primary |-> is_primary, is_enabled |-> is_enabled]

\* __new__
NewManager == [devices |-> <<>>, initialized |-> FALSE, config_files_checked |-> FALSE]

\* load_from_database; db_ok: the SELECT goes through
load_from_database(m, table, db_ok) ==
    IF ~db_ok THEN [m |-> m, ret |-> FALSE]
    ELSE LET rows == SelectIdx(table, [i \in DOMAIN table |-> table[i].is_enabled], 1)
             loaded == [i \in DOMAIN rows |->
                           <<rows[i].id,
                             UPSSingleConfig(rows[i].id, rows[i].name, rows[i].is_primary,
                                             rows[i].is_enabled)>>]
         IN  IF loaded # <<>>
             THEN [m |-> [m EXCEPT !.devices = loaded, !.initialized = TRUE], ret |-> TRUE]
             ELSE [m |-> [m EXCEPT !.devices = loaded], ret |-> FALSE]

\* load_from_config_files; params: the name found in the NUT files, an Optional
load_from_config_files(m, params) ==
    LET m1 == [m EXCEPT !.config_files_checked = TRUE]
    IN  IF params # None
        THEN [m |-> [m1 EXCEPT !.devices = << <<0, UPSSingleConfig(0, Val(params), TRUE, TRUE)>> >>,
                               !.initialized = TRUE],
              ret |-> TRUE]
        ELSE [m |-> m1, ret |-> FALSE]

\* ensure_initialized asking the database on every call
ensure_initialized_always(m, env) ==
    LET db == load_from_database(m, env.table, env.db_ok)
    IN  IF db.ret THEN [m |-> db.m, ret |-> TRUE, db_reads |-> 1, file_reads |-> 0]
        ELSE IF ~db.m.config_files_checked
        THEN LET files == load_from_config_files(db.m, env.params)
             IN  [m |-> files.m, ret |-> files.ret, db_reads |-> 1, file_reads |-> 1]
        ELSE [m |-> db.m, ret |-> FALSE, db_reads |-> 1, file_reads |-> 0]

\* env: the table, whether the database answers, and the NUT files
ensure_initialized(m, env) ==
    IF m.initialized THEN [m |-> m, ret |-> TRUE, db_reads |-> 0, file_reads |-> 0]
    ELSE LET db == load_from_database(m, env.table, env.db_ok)
         IN  IF db.ret THEN [m |-> db.m, ret |-> TRUE, db_reads |-> 1, file_reads |-> 0]
             ELSE IF ~db.m.config_files_checked
             THEN LET files == load_from_config_files(db.m, env.params)
                  IN  [m |-> files.m, ret |-> files.ret, db_reads |-> 1, file_reads |-> 1]
             ELSE [m |-> db.m, ret |-> FALSE, db_reads |-> 1, file_reads |-> 0]

\* "[config for config in self.devices.values() if config.is_enabled]"
EnabledConfigs(m) ==
    LET configs == [i \in DOMAIN m.devices |-> m.devices[i][2]]
    IN  SelectIdx(configs, [i \in DOMAIN configs |-> configs[i].is_enabled], 1)

get_all_enabled(m, env) ==
    LET init == ensure_initialized(m, env)
    IN  [m |-> init.m, ret |-> EnabledConfigs(init.m),
         db_reads |-> init.db_reads, file_reads |-> init.file_reads]

get_primary(m, env) ==
    LET init == ensure_initialized(m, env)
        primaries == SelectIdx(EnabledConfigs(init.m),
                               [i \in DOMAIN EnabledConfigs(init.m) |->
                                   EnabledConfigs(init.m)[i].is_primary], 1)
    IN  IF primaries # <<>>
        THEN [m |-> init.m, ret |-> Some(primaries[1]),
              db_reads |-> init.db_reads, file_reads |-> init.file_reads]
        ELSE LET enabled == get_all_enabled(init.m, env)
             IN  [m |-> enabled.m,
                  ret |-> IF enabled.ret # <<>> THEN Some(enabled.ret[1]) ELSE None,
                  db_reads |-> init.db_reads + enabled.db_reads,
                  file_reads |-> init.file_reads + enabled.file_reads]

get_by_id(m, ups_id, env) ==
    LET init == ensure_initialized(m, env)
        found == SelectIdx(init.m.devices,
                           [i \in DOMAIN init.m.devices |-> init.m.devices[i][1] = ups_id], 1)
    IN  [m |-> init.m, ret |-> IF found # <<>> THEN Some(found[1][2]) ELSE None,
         db_reads |-> init.db_reads, file_reads |-> init.file_reads]

get_by_name(m, name, env) ==
    LET init == ensure_initialized(m, env)
        found == SelectIdx(init.m.devices,
                           [i \in DOMAIN init.m.devices |-> init.m.devices[i][2].name = name], 1)
    IN  [m |-> init.m, ret |-> IF found # <<>> THEN Some(found[1][2]) ELSE None,
         db_reads |-> init.db_reads, file_reads |-> init.file_reads]

reload(m, env) ==
    ensure_initialized([m EXCEPT !.initialized = FALSE, !.config_files_checked = FALSE], env)

-----------------------------------------------------------------------------
(* api_ups_management.py: the handlers. Each gives the table and the manager
   after the request and the HTTP status of the response; params is what the
   NUT files hold when the manager reloads. regenerate_nut_configs writes the
   NUT files and restarts the services, catches what it raises, and touches
   neither the table nor the manager *)

\* the environment of a reload made by a handler, right after its commit
AfterCommit(table, params) == [table |-> table, db_ok |-> TRUE, params |-> params]

\* json: 'name' (an Optional), 'is_enabled' and 'is_primary'
add_device(table, m, json, params) ==
    IF json.name = None THEN [table |-> table, m |-> m, code |-> 400]
    ELSE IF UPSDevice_get_by_name(table, Val(json.name)) # None
    THEN [table |-> table, m |-> m, code |-> 400]
    ELSE LET created == UPSDevice_create_device(
                            table, [name |-> Val(json.name), is_enabled |-> json.is_enabled,
                                    is_primary |-> json.is_primary])
         IN  IF created.raised THEN [table |-> table, m |-> m, code |-> 500]
             ELSE [table |-> created.table,
                   m |-> reload(m, AfterCommit(created.table, params)).m, code |-> 200]

update_device(table, m, ups_id, json, params) ==
    LET updated == UPSDevice_update_device(table, ups_id, json)
    IN  IF updated.raised THEN [table |-> table, m |-> m, code |-> 500]
        ELSE IF updated.ret = None THEN [table |-> updated.table, m |-> m, code |-> 404]
        ELSE [table |-> updated.table,
              m |-> reload(m, AfterCommit(updated.table, params)).m, code |-> 200]

toggle_device(table, m, ups_id, params) ==
    LET device == UPSDevice_get_by_id(table, ups_id)
    IN  IF device = None THEN [table |-> table, m |-> m, code |-> 404]
        ELSE LET new_state == ~Val(device).is_enabled
                 toggled == PutRow(table, [Val(device) EXCEPT !.is_enabled = new_state])
             IN  IF ~new_state /\ EnabledCount(table) <= 1
                 THEN [table |-> table, m |-> m, code |-> 400]
                 ELSE [table |-> toggled, m |-> reload(m, AfterCommit(toggled, params)).m,
                       code |-> 200]

delete_device(table, m, ups_id, params) ==
    IF Len(table) <= 1 THEN [table |-> table, m |-> m, code |-> 400]
    ELSE LET deleted == UPSDevice_delete_device(table, ups_id)
         IN  IF deleted.raised THEN [table |-> table, m |-> m, code |-> 500]
             ELSE IF deleted.ret = None THEN [table |-> deleted.table, m |-> m, code |-> 404]
             ELSE [table |-> deleted.table,
                   m |-> reload(m, AfterCommit(deleted.table, params)).m, code |-> 200]

-----------------------------------------------------------------------------
(* The state machine *)

Threads == {1, 2}

\* the value a call of `call` returned
Returned(call, value) == Some([call |-> call, value |-> value])

Idle == [t \in Threads |-> "idle"]
NoLocals == [t \in Threads |-> <<>>]

Assign(c) ==
    /\ size' = c.size
    /\ data' = c.data
    /\ df' = c.df
    /\ per_ups_data' = c.per_ups_data
    /\ aggregated_data' = c.aggregated_data
    /\ next_save_time' = c.next_save_time
    /\ next_hour' = c.next_hour
    /\ hourly_data' = c.hourly_data
    /\ last_daily_aggregation' = c.last_daily_aggregation
    /\ last_broadcast' = c.last_broadcast
    /\ last_broadcast_aggregated' = c.last_broadcast_aggregated
    /\ last_broadcast_per_ups' = c.last_broadcast_per_ups
    /\ persisted' = c.persisted
    /\ emitted' = c.emitted

\* The process has started: the registry holds `devices`, the cache is new.
Started(devices) ==
    /\ clock \in StartTimes
    /\ enabled_devices = devices
    /\ ups_devices = [i \in DOMAIN devices |->
                         DeviceRow(devices[i], DeviceNames[devices[i]], TRUE, i = 1)]
    /\ manager = load_from_database(NewManager, ups_devices, TRUE).m
    /\ size = CacheSeconds
    /\ data = <<>>
    /\ df = None
    /\ per_ups_data = <<>>
    /\ aggregated_data = <<>>
    /\ next_save_time = None
    /\ next_hour = None
    /\ hourly_data = <<>>
    /\ last_daily_aggregation = None
    /\ last_broadcast = None
    /\ last_broadcast_aggregated = None
    /\ last_broadcast_per_ups = <<>>
    /\ persisted = <<>>
    /\ emitted = <<>>
    /\ result = None
    /\ committed = None
    /\ calls = 0
    /\ data_lock = None
    /\ pc = Idle
    /\ local = NoLocals

\* save_ups_data, single-UPS branch, the UPS not connected
SaveUnavailable(j, polling_interval) ==
    /\ calls < MaxCalls
    /\ Len(enabled_devices) <= 1
    /\ Assign(AdjustSize(St, polling_interval))
    /\ clock' = clock + j
    /\ result' = Returned("save_ups_data",
                          <<FALSE, "UPS connection unavailable, skipping data collection">>)
    /\ committed' = None
    /\ calls' = calls + 1
    /\ UNCHANGED <<enabled_devices, ups_devices, manager, data_lock, pc, local>>

\* save_ups_data, single-UPS branch: add, then calculate_and_save_averages
SaveSingle(j, polling_interval, reading, db) ==
    /\ calls < MaxCalls
    /\ Len(enabled_devices) <= 1
    /\ \E out \in {calculate_and_save_averages(
                       add(AdjustSize(St, polling_interval), clock + j, reading, clock + j),
                       clock + j, clock + j, db)} :
           Assign(out.c) /\ committed' = out.commit
    /\ clock' = clock + j
    /\ result' = Returned("save_ups_data", <<TRUE, None>>)
    /\ calls' = calls + 1
    /\ UNCHANGED <<enabled_devices, ups_devices, manager, data_lock, pc, local>>

\* what get_all_ups_data may return for the enabled devices
AllUpsData ==
    {<<>>} \cup
    {[i \in DOMAIN enabled_devices |-> <<enabled_devices[i], WithId(enabled_devices[i], r[i])>>] :
        r \in [DOMAIN enabled_devices -> Readings]}

\* save_ups_data, multi-UPS branch
SaveMulti(j, polling_interval, all_ups_data) ==
    /\ calls < MaxCalls
    /\ Len(enabled_devices) > 1
    /\ LET now_utc == clock + j
           c0 == AdjustSize(St, polling_interval)
       IN  IF all_ups_data = <<>>
           THEN /\ Assign(c0)
                /\ result' = Returned("save_ups_data",
                                      <<FALSE, "No UPS data retrieved from any device">>)
           ELSE /\ Assign(add_multi_ups(c0, now_utc, all_ups_data, now_utc))
                /\ result' = Returned("save_ups_data", <<TRUE, None>>)
    /\ committed' = None
    /\ clock' = clock + j
    /\ calls' = calls + 1
    /\ UNCHANGED <<enabled_devices, ups_devices, manager, data_lock, pc, local>>

\* a direct call of calculate_and_save_averages, with no ingestion before it
FlushCheck(j, db) ==
    /\ calls < MaxCalls
    /\ \E out \in {calculate_and_save_averages(St, clock + j, clock + j, db)} :
           /\ Assign(out.c)
           /\ committed' = out.commit
           /\ result' = Returned("calculate_and_save_averages", out.ret)
    /\ clock' = clock + j
    /\ calls' = calls + 1
    /\ UNCHANGED <<enabled_devices, ups_devices, manager, data_lock, pc, local>>

\* The database outcomes of the runs
Flushes == {"ok", "commit_fails"}

(* Single-UPS mode: one enabled device, polled by one driver *)
Init == Started(<<1>>)

Next ==
    \/ \E j \in Jumps, r \in Readings, db \in Flushes :
          SaveSingle(j, DefaultInterval, r, db)
    \/ \E j \in FlushJumps, db \in Flushes : FlushCheck(j, db)

Spec == Init /\ [][Next]_vars

(* Multi-UPS mode: two enabled devices *)
InitMulti == Started(<<1, 2>>)

NextMulti ==
    \E j \in FlushJumps, a \in AllUpsData : SaveMulti(j, DefaultInterval, a)

SpecMulti == InitMulti /\ [][NextMulti]_vars

(* Single-UPS mode with two threads in save_ups_data at once. A thread takes
   the steps of the single-UPS branch one at a time: the read of the clock, the
   append of add(), the rest of add(), then calculate_and_save_averages up to
   the reduction, up to the lock, the commit under data_lock, and the clean-up
   after it. *)

Goto(t, label) == pc' = [pc EXCEPT ![t] = label]

\* save_ups_data entered: now_utc read from the clock, before the sampling
\* interval, the connection monitor and the upsc command are waited for
ConcStart(t) ==
    /\ pc[t] = "idle"
    /\ calls < MaxConcCalls
    /\ Len(enabled_devices) <= 1
    /\ local' = [local EXCEPT ![t] = [now_utc |-> clock]]
    /\ Goto(t, "started")
    /\ calls' = calls + 1
    /\ UNCHANGED <<clock, enabled_devices, ups_devices, manager, size, data, df, per_ups_data, aggregated_data,
                   next_save_time, next_hour, hourly_data, last_daily_aggregation,
                   last_broadcast, last_broadcast_aggregated, last_broadcast_per_ups,
                   persisted, emitted, result, committed, data_lock>>

\* add(now_utc, ..): next_save_time set on the first sample, the sample appended
ConcAppend(t, reading) ==
    /\ pc[t] = "started"
    /\ next_save_time' = IF next_save_time = None
                         THEN Some(get_next_minute(clock)) ELSE next_save_time
    /\ data' = Append(data, <<local[t].now_utc, FormatKeys(reading, <<>>)>>)
    /\ local' = [local EXCEPT ![t] = [formatted_data |-> FormatKeys(reading, <<>>)]]
    /\ Goto(t, "appended")
    /\ UNCHANGED <<clock, enabled_devices, ups_devices, manager, size, df, per_ups_data, aggregated_data,
                   next_hour, hourly_data, last_daily_aggregation, last_broadcast,
                   last_broadcast_aggregated, last_broadcast_per_ups, persisted,
                   emitted, result, committed, calls, data_lock>>

\* add(): the frame rebuilt from the buffer, the view published
ConcRebuild(t) ==
    /\ pc[t] = "appended"
    /\ \E c \in {broadcast_cache_update([St EXCEPT !.df = Some(data)],
                                        local[t].formatted_data, clock)} :
           Assign(c)
    /\ Goto(t, "added")
    /\ UNCHANGED <<clock, enabled_devices, ups_devices, manager, result, committed, calls, data_lock, local>>

\* calculate_and_save_averages up to "averages = self.calculate_averages()"
ConcReduce(t) ==
    /\ pc[t] = "added"
    /\ next_hour' = IF next_hour = None THEN Some(get_next_hour(clock)) ELSE next_hour
    /\ \E averages \in {calculate_averages(df)} :
           IF ~is_save_time(St, clock) \/ averages = None \/ Val(averages) = <<>>
           THEN /\ Goto(t, "idle")
                /\ local' = [local EXCEPT ![t] = <<>>]
                /\ result' = Returned("save_ups_data", <<TRUE, None>>)
                /\ committed' = None
           ELSE /\ Goto(t, "reduced")
                /\ local' = [local EXCEPT ![t] = [averages |-> Val(averages),
                                                  utc_now |-> clock]]
                /\ UNCHANGED <<result, committed>>
    /\ UNCHANGED <<clock, enabled_devices, ups_devices, manager, size, data, df, per_ups_data, aggregated_data,
                   next_save_time, hourly_data, last_daily_aggregation, last_broadcast,
                   last_broadcast_aggregated, last_broadcast_per_ups, persisted,
                   emitted, calls, data_lock>>

\* the record built: its timestamp, the hourly list, the hourly average
ConcBuild(t) ==
    /\ pc[t] = "reduced"
    /\ LET averages == local[t].averages
           stamp == RollupStamp(St, clock)
           has_power == DictHas(averages, K_ups_realpower)
           hour_due == has_power /\ local[t].utc_now >= Val(next_hour)
           hrs == IF hour_due
                  THEN HourlyAverage(persisted, Val(next_hour) - Hour, Val(next_hour))
                  ELSE None
       IN  /\ hourly_data' =
                  IF hour_due THEN <<>>
                  ELSE IF has_power
                  THEN Append(hourly_data,
                              [timestamp |-> stamp,
                               ups_realpower |-> DictGet(averages, K_ups_realpower)])
                  ELSE hourly_data
           /\ next_hour' = IF hour_due THEN Some(get_next_hour(clock)) ELSE next_hour
           /\ local' = [local EXCEPT ![t] = [averages |-> averages, stamp |-> stamp,
                                             hrs |-> hrs]]
    /\ Goto(t, "built")
    /\ UNCHANGED <<clock, enabled_devices, ups_devices, manager, size, data, df, per_ups_data, aggregated_data,
                   next_save_time, last_daily_aggregation, last_broadcast,
                   last_broadcast_aggregated, last_broadcast_per_ups, persisted,
                   emitted, result, committed, calls, data_lock>>

\* "with data_lock:" entered
ConcLock(t) ==
    /\ pc[t] = "built"
    /\ data_lock = None
    /\ data_lock' = Some(t)
    /\ Goto(t, "locked")
    /\ UNCHANGED <<clock, enabled_devices, ups_devices, manager, size, data, df, per_ups_data, aggregated_data,
                   next_save_time, next_hour, hourly_data, last_daily_aggregation,
                   last_broadcast, last_broadcast_aggregated, last_broadcast_per_ups,
                   persisted, emitted, result, committed, calls, local>>

\* db.session.add, db.session.commit, and the lock released
ConcCommit(t) ==
    /\ pc[t] = "locked"
    /\ persisted' = Append(persisted, Row(local[t].stamp, local[t].averages,
                                          local[t].hrs, None))
    /\ data_lock' = None
    /\ Goto(t, "committed")
    /\ UNCHANGED <<clock, enabled_devices, ups_devices, manager, size, data, df, per_ups_data, aggregated_data,
                   next_save_time, next_hour, hourly_data, last_daily_aggregation,
                   last_broadcast, last_broadcast_aggregated, last_broadcast_per_ups,
                   emitted, result, committed, calls, local>>

\* the buffer cleaned, next_save_time moved, the daily aggregation
ConcClear(t) ==
    /\ pc[t] = "committed"
    /\ \E daily \in {should_aggregate_daily(
                         [St EXCEPT !.data = <<>>, !.df = None,
                                    !.next_save_time = Some(get_next_minute(clock))],
                         clock)} :
           /\ daily.ret => data_lock = None
           /\ Assign(IF daily.ret THEN aggregate_daily_data(daily.c, clock, TRUE)
                      ELSE daily.c)
    /\ Goto(t, "idle")
    /\ local' = [local EXCEPT ![t] = <<>>]
    /\ result' = Returned("save_ups_data", <<TRUE, None>>)
    /\ committed' = Some(TRUE)
    /\ UNCHANGED <<clock, enabled_devices, ups_devices, manager, calls, data_lock>>

\* a minute passes
Tick ==
    /\ \A start \in StartTimes : clock + Minute <= start + MaxTicks * Minute
    /\ clock' = clock + Minute
    /\ UNCHANGED <<enabled_devices, ups_devices, manager, size, data, df, per_ups_data, aggregated_data,
                   next_save_time, next_hour, hourly_data, last_daily_aggregation,
                   last_broadcast, last_broadcast_aggregated, last_broadcast_per_ups,
                   persisted, emitted, result, committed, calls, data_lock, pc, local>>

InitConc == Started(<<1>>)

NextConc ==
    \/ \E t \in Threads : ConcStart(t)
    \/ \E t \in Threads, r \in Readings : ConcAppend(t, r)
    \/ \E t \in Threads : ConcRebuild(t)
    \/ \E t \in Threads : ConcReduce(t)
    \/ \E t \in Threads : ConcBuild(t)
    \/ \E t \in Threads : ConcLock(t)
    \/ \E t \in Threads : ConcCommit(t)
    \/ \E t \in Threads : ConcClear(t)
    \/ Tick

SpecConc == InitConc /\ [][NextConc]_vars

(* The publisher: either mode, polled every polling interval, with readings
   that carry the four watched metrics *)

\* ups.load in hundredths: 50, 50.4, 51 and 51.1 percent
PubLoads == {5000, 5040, 5100, 5110}

\* a parsed reading that also reports input.voltage
PubReading(status, load) ==
    Reading(status, load, 10000) \o << <<K_input_voltage, Num(23000)>> >>

PubReadings ==
    {PubReading(status, load) : status \in {S_OL, S_OB}, load \in PubLoads}
    \cup {ErrorReading}

\* two devices: the second steady at 50 percent, the first such that the
\* average load of the two is one of PubLoads
PubAllUpsData ==
    {<< <<1, WithId(1, PubReading(status, 2 * load - 5000))>>,
        <<2, WithId(2, PubReading(S_OL, 5000))>> >> :
        status \in {S_OL, S_OB}, load \in PubLoads}
    \cup {<< <<1, WithId(1, ErrorReading)>>, <<2, WithId(2, PubReading(S_OL, 5000))>> >>}

InitPub == Started(<<1>>) \/ Started(<<1, 2>>)

NextPub ==
    \/ \E r \in PubReadings : SaveSingle(DefaultInterval, DefaultInterval, r, "ok")
    \/ \E a \in PubAllUpsData : SaveMulti(DefaultInterval, DefaultInterval, a)

SpecPub == InitPub /\ [][NextPub]_vars

(* Two devices whose views change one by one: the first is online or on
   battery with a load of 50, 51 or 52 percent, the second online or on
   battery at 50 percent, so that the aggregated load is 50, 50.5 or 51 *)

ViewLoads == {5000, 5100, 5200}

ViewAllUpsData ==
    {<< <<1, WithId(1, PubReading(first, load))>>,
        <<2, WithId(2, PubReading(second, 5000))>> >> :
        first \in {S_OL, S_OB}, second \in {S_OL, S_OB}, load \in ViewLoads}

InitView == Started(<<1, 2>>)

NextView ==
    \E a \in ViewAllUpsData : SaveMulti(DefaultInterval, DefaultInterval, a)

SpecView == InitView /\ [][NextView]_vars

-----------------------------------------------------------------------------
(* save_ups_data with its collaborators: the sampling interval read from
   VariableConfig, the connection monitor, the upsc command of each device,
   the database session and the websocket. One call is given the outcome of
   each as a record
     [interval, connection, acquired, db, transport]
   interval: <<i>>, or None when the read raises; connection: what
   is_ups_connected() does; acquired: per device, what running upsc gives;
   db: an element of Flushes; transport: whether websocket.emit returns. *)

S_TIMEOUT == <<"T", "I", "M", "E", "O", "U", "T">>
S_NO_DATA == <<"N", "O", "_", "D", "A", "T", "A">>
S_NOCOMM == <<"N", "O", "C", "O", "M", "M">>

\* the UPSData built on a failure: a status, zeroed fields and the message
Sentinel(status, msg) ==
    << <<K_ups_status, Txt(status)>>, <<K_battery_charge, Num(0)>>,
       <<K_battery_runtime, IntV(0)>>, <<K_input_voltage, Num(0)>>,
       <<K_output_voltage, Num(0)>>, <<K_error, Txt(msg)>> >>

\* what upsc gives for a device
Acquired(kind, reading) == [kind |-> kind, reading |-> reading]

get_ups_data(acq) ==
    CASE acq.kind = "not_connected" -> Sentinel(S_NOCOMM, <<"UPS connection unavailable">>)
      [] acq.kind = "missing_parameters" -> Sentinel(S_ERROR, <<"Missing UPS parameters">>)
      [] acq.kind = "nonzero_exit" -> Sentinel(S_ERROR, S_error_msg)
      [] acq.kind = "empty_output" -> Sentinel(S_NO_DATA, <<"No data returned from UPS">>)
      [] acq.kind = "timeout" -> Sentinel(S_TIMEOUT, <<"UPS command timed out">>)
      [] acq.kind = "raises" -> Sentinel(S_ERROR, <<"Error executing UPS command">>)
      [] OTHER -> acq.reading

\* get_all_ups_data leaving out a device whose command raises
get_all_ups_data_skip(devices, acquired) ==
    SelectIdx([i \in DOMAIN devices |->
                  <<devices[i], WithId(devices[i], get_ups_data(acquired[i]))>>],
              [i \in DOMAIN devices |-> acquired[i].kind # "raises"], 1)

\* the loop over the enabled devices: one entry of all_data for each
get_all_ups_data(devices, acquired) ==
    [i \in DOMAIN devices |->
        <<devices[i],
          WithId(devices[i],
                 CASE acquired[i].kind = "nonzero_exit" -> Sentinel(S_ERROR, S_error_msg)
                   [] acquired[i].kind = "empty_output" ->
                          Sentinel(S_NO_DATA, <<"No data returned from UPS">>)
                   [] acquired[i].kind = "timeout" ->
                          Sentinel(S_TIMEOUT, <<"UPS command timed out">>)
                   [] acquired[i].kind = "raises" ->
                          Sentinel(S_ERROR, <<"Error polling UPS">>)
                   [] OTHER -> acquired[i].reading)>>]

\* the polling interval: the configured one, 1 when the read raises
ReadInterval(interval) == IF interval = None THEN DefaultInterval ELSE Val(interval)

\* a publish whose stored views are as before when websocket.emit raises
Delivered_unstored(before, after, transport) ==
    IF transport THEN after
    ELSE [after EXCEPT !.emitted = before.emitted,
                       !.last_broadcast = before.last_broadcast,
                       !.last_broadcast_aggregated = before.last_broadcast_aggregated,
                       !.last_broadcast_per_ups = before.last_broadcast_per_ups]

\* the cache after a publish: websocket.emit raising is caught after the
\* published view was stored, and nothing is delivered
Delivered(before, after, transport) ==
    IF transport THEN after ELSE [after EXCEPT !.emitted = before.emitted]

\* an exception escaping the handler instead of being turned into a result
Caught_reraise(c, e) == [c |-> c, ret |-> <<e>>, commit |-> None]

\* "except Exception as e: return False, error_msg"
Caught(c, e) == [c |-> c, ret |-> <<FALSE, e>>, commit |-> None]

\* save_ups_data: the cache after the call, the pair returned (a 1-tuple
\* when the call raises) and the outcome of the commit, if one was made
save_ups_data(c, devices, now_utc, in) ==
    LET c0 == AdjustSize(c, ReadInterval(in.interval))
    IN  IF Len(devices) > 1
        THEN LET all_ups_data == get_all_ups_data(devices, in.acquired)
             IN  IF all_ups_data = <<>>
                 THEN [c |-> c0, ret |-> <<FALSE, <<"No UPS data retrieved from any device">>>>,
                       commit |-> None]
                 ELSE [c |-> Delivered(c0, add_multi_ups(c0, now_utc, all_ups_data, now_utc),
                                       in.transport),
                       ret |-> <<TRUE, None>>, commit |-> None]
        ELSE IF in.connection = "raises" THEN Caught(c0, <<"Error saving data">>)
        ELSE IF in.connection = "unavailable"
        THEN [c |-> c0,
              ret |-> <<FALSE, <<"UPS connection unavailable, skipping data collection">>>>,
              commit |-> None]
        ELSE LET out == calculate_and_save_averages(
                            Delivered(c0, add(c0, now_utc, get_ups_data(in.acquired[1]), now_utc),
                                      in.transport),
                            now_utc, now_utc, in.db)
             IN  [c |-> out.c, ret |-> <<TRUE, None>>, commit |-> out.commit]

\* one call of save_ups_data by the polling driver, j seconds after the last;
\* the driver's locals keep the interval read and what the collaborators did
Poll(limit, j, in) ==
    /\ calls < limit
    /\ \E out \in {save_ups_data(St, enabled_devices, clock + j, in)} :
           /\ Assign(out.c)
           /\ result' = Returned("save_ups_data", out.ret)
           /\ committed' = out.commit
    /\ clock' = clock + j
    /\ calls' = calls + 1
    /\ local' = [local EXCEPT ![1] = [polling_interval |-> ReadInterval(in.interval),
                                      connection |-> in.connection,
                                      acquired |-> [i \in DOMAIN in.acquired |-> in.acquired[i].kind],
                                      transport |-> in.transport]]
    /\ UNCHANGED <<enabled_devices, ups_devices, manager, data_lock, pc>>

(* The buffer capacity: one device, the interval re-read on every call *)

MaxCapCalls == 6

InitCap == Started(<<1>>)

NextCap ==
    \E j \in {0, Minute}, i \in {1, 30}, db \in Flushes :
        Poll(MaxCapCalls, j,
             [interval |-> Some(i), connection |-> "connected",
              acquired |-> <<Acquired("ok", Reading(S_OL, 5000, 10000))>>,
              db |-> db, transport |-> TRUE])

SpecCap == InitCap /\ [][NextCap]_vars

(* Failing collaborators: no device, one device or two devices enabled, a call
   every 45 seconds, and in every call any of the collaborators may fail *)

MaxFailCalls == 2

InitFail == Started(<<>>) \/ Started(<<1>>) \/ Started(<<1, 2>>)

NextFail ==
    \/ /\ Len(enabled_devices) <= 1
       /\ \E interval \in {None, Some(DefaultInterval)},
             connection \in {"connected", "unavailable", "raises"},
             kind \in {"ok", "not_connected", "missing_parameters", "nonzero_exit",
                       "empty_output", "timeout", "raises"},
             db \in Flushes, transport \in BOOLEAN :
               Poll(MaxFailCalls, 45,
                    [interval |-> interval, connection |-> connection,
                     acquired |-> <<Acquired(kind, Reading(S_OL, 5000, 10000))>>,
                     db |-> db, transport |-> transport])
    \/ /\ Len(enabled_devices) > 1
       /\ \E interval \in {None, Some(DefaultInterval)},
             kinds \in [DOMAIN enabled_devices ->
                           {"ok", "nonzero_exit", "empty_output", "timeout", "raises"}] :
               Poll(MaxFailCalls, 45,
                    [interval |-> interval, connection |-> "connected",
                     acquired |-> [i \in DOMAIN enabled_devices |->
                                      Acquired(kinds[i], Reading(S_OL, 5000, 10000))],
                     db |-> "ok", transport |-> TRUE])

SpecFail == InitFail /\ [][NextFail]_vars

(* A failing transport: one device or two, a call every second, the load read
   50 or 52 percent, and in every call websocket.emit may raise *)

MaxEmitCalls == 4

InitEmit == Started(<<1>>) \/ Started(<<1, 2>>)

NextEmit ==
    \E load \in {5000, 5200}, transport \in BOOLEAN :
        Poll(MaxEmitCalls, DefaultInterval,
             [interval |-> Some(DefaultInterval), connection |-> "connected",
              acquired |-> [i \in DOMAIN enabled_devices |->
                               Acquired("ok", PubReading(S_OL, load))],
              db |-> "ok", transport |-> transport])

SpecEmit == InitEmit /\ [][NextEmit]_vars

(* The daily aggregation: one device, a call at once, after 90 seconds or
   after a day, and the write of the day record may fail. The driver's locals
   keep, for every call that found the day boundary due, the day
   aggregate_daily_data queried and whether a day record was written *)

MaxDailyCalls == 5

\* save_ups_data, single-UPS branch, the daily checks it made being noted
DailySave(j, db) ==
    /\ calls < MaxDailyCalls
    /\ \E out \in {calculate_and_save_averages(
                       add(AdjustSize(St, DefaultInterval), clock + j,
                           Reading(S_OL, 5000, 10000), clock + j),
                       clock + j, clock + j, db)} :
           /\ Assign(out.c)
           /\ committed' = out.commit
           /\ local' = [local EXCEPT ![1] =
                           IF /\ last_daily_aggregation # None
                              /\ out.c.last_daily_aggregation # last_daily_aggregation
                           THEN Append(@, [day |-> FloorTo(clock + j, Day) - Day,
                                           wrote |-> Len(out.c.persisted)
                                                         > Len(persisted) + 1])
                           ELSE @]
    /\ clock' = clock + j
    /\ result' = Returned("save_ups_data", <<TRUE, None>>)
    /\ calls' = calls + 1
    /\ UNCHANGED <<enabled_devices, ups_devices, manager, data_lock, pc>>

InitDaily == Started(<<1>>)

NextDaily ==
    \E j \in Jumps, db \in {"ok", "daily_fails"} : DailySave(j, db)

SpecDaily == InitDaily /\ [][NextDaily]_vars

(* The device table and the manager: requests to the management API and calls
   of the manager's accessors, in any order. The table starts with one enabled
   device, two enabled devices, or an enabled and a disabled one, and the
   manager starts as the module creates it. The caller's locals keep the id
   or the name asked for and whether the database answered *)

MaxDeviceCalls == 4

DeviceIds == {1, 2, 3}

\* what get_ups_connection_params finds in the NUT files
FileParams == {None, Some("nut")}

\* the JSON bodies of the add requests and of the update requests
AddBodies ==
    {[name |-> name, is_enabled |-> is_enabled, is_primary |-> FALSE] :
        name \in {None, Some("b"), Some("c")}, is_enabled \in BOOLEAN}
UpdateBodies ==
    {<<>>, << <<"is_enabled", FALSE>> >>, << <<"is_enabled", TRUE>> >>, << <<"name", "a">> >>}

StartTables ==
    {<<DeviceRow(1, "a", TRUE, TRUE)>>,
     <<DeviceRow(1, "a", TRUE, TRUE), DeviceRow(2, "b", TRUE, FALSE)>>,
     <<DeviceRow(1, "a", TRUE, TRUE), DeviceRow(2, "b", FALSE, FALSE)>>}

\* a request served: the table, the manager and the status of the response
Served(call, ups_id, out) ==
    /\ calls < MaxDeviceCalls
    /\ ups_devices' = out.table
    /\ manager' = out.m
    /\ result' = Returned(call, out.code)
    /\ local' = [local EXCEPT ![1] = [ups_id |-> ups_id, name |-> "", db_ok |-> TRUE]]
    /\ calls' = calls + 1
    /\ UNCHANGED <<clock, enabled_devices, size, data, df, per_ups_data, aggregated_data,
                   next_save_time, next_hour, hourly_data, last_daily_aggregation,
                   last_broadcast, last_broadcast_aggregated, last_broadcast_per_ups,
                   persisted, emitted, committed, data_lock, pc>>

AddDevice(json, params) ==
    Served("add_device", 0, add_device(ups_devices, manager, json, params))

UpdateDevice(ups_id, json, params) ==
    Served("update_device", ups_id, update_device(ups_devices, manager, ups_id, json, params))

ToggleDevice(ups_id, params) ==
    Served("toggle_device", ups_id, toggle_device(ups_devices, manager, ups_id, params))

DeleteDevice(ups_id, params) ==
    Served("delete_device", ups_id, delete_device(ups_devices, manager, ups_id, params))

\* a call of the manager answered: the value returned and the reads it made
Answered(call, ups_id, name, env, out) ==
    /\ calls < MaxDeviceCalls
    /\ manager' = out.m
    /\ local' = [local EXCEPT ![1] = [ups_id |-> ups_id, name |-> name, db_ok |-> env.db_ok]]
    /\ result' = Returned(call, [ret |-> out.ret, db_reads |-> out.db_reads,
                                 file_reads |-> out.file_reads])
    /\ calls' = calls + 1
    /\ UNCHANGED <<clock, ups_devices, size, data, df, per_ups_data, aggregated_data,
                   next_save_time, next_hour, hourly_data, last_daily_aggregation,
                   last_broadcast, last_broadcast_aggregated, last_broadcast_per_ups,
                   persisted, emitted, committed, data_lock, pc>>

\* the poll asking for the enabled devices
GetAllEnabled(env) ==
    /\ Answered("get_all_enabled", 0, "", env, get_all_enabled(manager, env))
    /\ enabled_devices' = [i \in DOMAIN get_all_enabled(manager, env).ret |->
                              get_all_enabled(manager, env).ret[i].ups_id]

GetPrimary(env) ==
    /\ Answered("get_primary", 0, "", env, get_primary(manager, env))
    /\ UNCHANGED enabled_devices

GetById(ups_id, env) ==
    /\ Answered("get_by_id", ups_id, "", env, get_by_id(manager, ups_id, env))
    /\ UNCHANGED enabled_devices

GetByName(name, env) ==
    /\ Answered("get_by_name", 0, name, env, get_by_name(manager, name, env))
    /\ UNCHANGED enabled_devices

Reload(env) ==
    /\ Answered("reload", 0, "", env, reload(manager, env))
    /\ UNCHANGED enabled_devices

InitDevices ==
    /\ clock \in StartTimes
    /\ enabled_devices = <<>>
    /\ ups_devices \in StartTables
    /\ manager = NewManager
    /\ size = CacheSeconds
    /\ data = <<>> /\ df = None /\ per_ups_data = <<>> /\ aggregated_data = <<>>
    /\ next_save_time = None /\ next_hour = None /\ hourly_data = <<>>
    /\ last_daily_aggregation = None
    /\ last_broadcast = None /\ last_broadcast_aggregated = None
    /\ last_broadcast_per_ups = <<>>
    /\ persisted = <<>> /\ emitted = <<>>
    /\ result = None /\ committed = None /\ calls = 0 /\ data_lock = None
    /\ pc = Idle
    /\ local = NoLocals

\* what a call of the manager may find: the table as it is, the database
\* answering or not, and the NUT files
Environments ==
    {[table |-> ups_devices, db_ok |-> db_ok, params |-> params] :
        db_ok \in BOOLEAN, params \in FileParams}

NextDevices ==
    \/ \E json \in AddBodies, params \in FileParams : AddDevice(json, params)
    \/ \E ups_id \in DeviceIds, json \in UpdateBodies, params \in FileParams :
          UpdateDevice(ups_id, json, params)
    \/ \E ups_id \in DeviceIds, params \in FileParams : ToggleDevice(ups_id, params)
    \/ \E ups_id \in DeviceIds, params \in FileParams : DeleteDevice(ups_id, params)
    \/ \E env \in Environments : GetAllEnabled(env)
    \/ \E env \in Environments : GetPrimary(env)
    \/ \E ups_id \in DeviceIds, env \in Environments : GetById(ups_id, env)
    \/ \E name \in {"a", "nut"}, env \in Environments : GetByName(name, env)
    \/ \E env \in Environments : Reload(env)

SpecDevices == InitDevices /\ [][NextDevices]_vars

(* get_worst_status applied to a list of statuses: the list is an argument of
   the caller, kept in its locals, and the value returned is the result *)

MaxStatuses == 3

S_ol_chrg == <<"o", "l", " ", "c", "h", "r", "g">>

\* what safe_get(ups_data, 'ups_status', ...) may give for a device
StatusInputs ==
    {None, Some(S_OL), Some(S_CHRG), Some(S_ol_chrg), Some(S_LB), Some(S_OB_DISCHRG),
     Some(S_ERROR)}

InitWorst ==
    /\ clock \in StartTimes
    /\ enabled_devices = <<>>
    /\ ups_devices = <<>>
    /\ manager = NewManager
    /\ size = CacheSeconds
    /\ data = <<>> /\ df = None /\ per_ups_data = <<>> /\ aggregated_data = <<>>
    /\ next_save_time = None /\ next_hour = None /\ hourly_data = <<>>
    /\ last_daily_aggregation = None
    /\ last_broadcast = None /\ last_broadcast_aggregated = None
    /\ last_broadcast_per_ups = <<>>
    /\ persisted = <<>> /\ emitted = <<>>
    /\ result = None /\ committed = None /\ calls = 0 /\ data_lock = None
    /\ pc = Idle
    /\ \E n \in 0..MaxStatuses : \E statuses \in [1..n -> StatusInputs] :
           local = [t \in Threads |-> IF t = 1 THEN statuses ELSE <<>>]

NextWorst ==
    /\ calls = 0
    /\ result' = Returned("get_worst_status", get_worst_status(local[1]))
    /\ calls' = calls + 1
    /\ UNCHANGED <<clock, enabled_devices, ups_devices, manager, size, data, df, per_ups_data, aggregated_data,
                   next_save_time, next_hour, hourly_data, last_daily_aggregation,
                   last_broadcast, last_broadcast_aggregated, last_broadcast_per_ups,
                   persisted, emitted, committed, data_lock, pc, local>>

SpecWorst == InitWorst /\ [][NextWorst]_vars

-----------------------------------------------------------------------------
(* Properties of the scheduler, single-UPS mode *)

IsDayRow(row) == row.ups_realpower_days # None

\* the minute rollup records of a table, and its day records
MinuteRows(table) == SelectIdx(table, [i \in DOMAIN table |-> ~IsDayRow(table[i])], 1)
DayRows(table) == SelectIdx(table, [i \in DOMAIN table |-> IsDayRow(table[i])], 1)

DistinctStamps(rows) ==
    \A i, k \in DOMAIN rows : i # k => rows[i].timestamp_utc # rows[k].timestamp_utc

\* a call has just been made at the instant clock'
Called == calls' = calls + 1

\* the call just made is an ingestion (save_ups_data)
Ingested == Called /\ result' # None /\ Val(result').call = "save_ups_data"

\* the call just made found the minute boundary it started with due
FoundDue == Called /\ next_save_time # None /\ clock' >= Val(next_save_time)

\* C1: with one ingestion thread and a clock that never goes back, no two
\* persisted minute rollup records carry the same boundary timestamp, and a
\* flush check made again at the instant of the call just made leaves at most
\* one minute record persisted by the two together.
C1_MinuteBoundaryOnce ==
    /\ [](DistinctStamps(MinuteRows(persisted)))
    /\ [][Called =>
            \A db \in Flushes, c \in {St'} :
                \A again \in {calculate_and_save_averages(c, clock', clock', db)} :
                    Len(MinuteRows(again.c.persisted)) <= Len(MinuteRows(persisted)) + 1]_vars

\* C1 witness: two minute records are persisted, the second by a flush at this
\* very instant (it emptied the buffer and moved the boundary past the clock),
\* and the flush check called again at this instant has persisted nothing.
C1_Witness ==
    /\ Len(MinuteRows(persisted)) >= 2
    /\ data = <<>>
    /\ next_save_time = Some(get_next_minute(clock))
    /\ result # None
    /\ Val(result).call = "calculate_and_save_averages"
    /\ Val(result).value = FALSE

\* the minute record the call just made persisted
NewMinuteRow == MinuteRows(persisted')[Len(MinuteRows(persisted'))]

\* the samples retained in the buffer are all still there after the call, with
\* at most the sample an ingestion appended at clock' behind them
BufferKept ==
    \/ data' = data
    \/ /\ Ingested
       /\ Len(data') = Len(data) + 1
       /\ SubSeq(data', 1, Len(data)) = data
       /\ data'[Len(data')][1] = clock'

\* h is the first whole `unit` strictly after the instant t
FirstAfter(h, t, unit) == h % unit = 0 /\ h > t /\ h - unit <= t

\* C2: when the reduction yields no record (the buffer is empty) or the write
\* of the minute record fails, the buffer and next_save_time are as before the
\* flush attempt and nothing is persisted; the next ingestion that finds the
\* boundary due attempts the flush again, and the record it writes is reduced
\* from the retained samples with the newly appended one.
C2_FailedFlushRetried ==
    [][/\ (FoundDue /\ committed' = Some(FALSE)) =>
              /\ next_save_time' = next_save_time
              /\ BufferKept
              /\ df' = Some(data')
              /\ persisted' = persisted
       /\ (FoundDue /\ ~Ingested /\ data = <<>>) =>
              /\ committed' = None
              /\ UNCHANGED <<data, next_save_time, persisted>>
       /\ (FoundDue /\ Ingested) => committed' # None
       /\ (FoundDue /\ Ingested /\ committed' = Some(TRUE)) =>
              \A row \in {NewMinuteRow} :
                  /\ row.timestamp_utc = Val(next_save_time)
                  /\ \E r \in Readings :
                        \E frame \in {Some(Append(data, <<clock', FormatKeys(r, <<>>)>>))} :
                            \E averages \in {calculate_averages(frame)} :
                                row.values = Val(averages)
      ]_vars

\* C2 witness: the write has just failed at a due boundary and two samples are
\* retained, the boundary still behind the clock.
C2_Witness ==
    /\ committed = Some(FALSE)
    /\ Len(data) >= 2
    /\ next_save_time # None
    /\ clock >= Val(next_save_time)
    /\ persisted = <<>>

\* C3: when the write of the minute record fails, the buffer, next_save_time,
\* next_hour, the daily boundary and the hourly list are all as they were
\* before the flush attempt.
C3_FailedFlushAtomic ==
    [][(FoundDue /\ committed' = Some(FALSE)) =>
          /\ BufferKept
          /\ next_save_time' = next_save_time
          /\ next_hour' = next_hour
          /\ last_daily_aggregation' = last_daily_aggregation
          /\ hourly_data' = hourly_data
      ]_vars

\* C5: when a call finds next_save_time due with samples to reduce and the
\* write does not fail, it persists exactly one minute record, stamped with the
\* boundary it found and not with the clock, the buffer is empty afterwards and
\* next_save_time is the first whole minute strictly after the clock.
C5_DueFlushPersistsOne ==
    [][(FoundDue /\ (Ingested \/ data # <<>>) /\ committed' # Some(FALSE)) =>
          /\ committed' = Some(TRUE)
          /\ MinuteRows(persisted') = Append(MinuteRows(persisted), NewMinuteRow)
          /\ NewMinuteRow.timestamp_utc = Val(next_save_time)
          /\ data' = <<>>
          /\ next_save_time' # None
          /\ FirstAfter(Val(next_save_time'), clock', Minute)
      ]_vars

\* C5 witness: a record has been flushed after a stall of a day: it carries the
\* boundary of the day before, and the boundary is now the minute after the
\* clock, with every boundary between the two skipped.
C5_Witness ==
    /\ committed = Some(TRUE)
    /\ data = <<>>
    /\ persisted # <<>>
    /\ next_save_time = Some(get_next_minute(clock))
    /\ LET rows == MinuteRows(persisted)
       IN  rows[Len(rows)].timestamp_utc + Day - Minute <= clock

NeverBack(before, after) ==
    before # None => after # None /\ Val(after) >= Val(before)

\* C7: next_save_time, next_hour and the daily boundary never decrease, and
\* each is strictly greater after a rollup that used it: a minute record
\* persisted, an hourly average written, a day record persisted.
C7_BoundariesForward ==
    [][/\ NeverBack(next_save_time, next_save_time')
       /\ NeverBack(next_hour, next_hour')
       /\ NeverBack(last_daily_aggregation, last_daily_aggregation')
       /\ Len(MinuteRows(persisted')) > Len(MinuteRows(persisted)) =>
              /\ next_save_time # None
              /\ Val(next_save_time') > Val(next_save_time)
              /\ NewMinuteRow.ups_realpower_hrs # None =>
                     next_hour # None /\ Val(next_hour') > Val(next_hour)
       /\ Len(DayRows(persisted')) > Len(DayRows(persisted)) =>
              /\ last_daily_aggregation # None
              /\ Val(last_daily_aggregation') > Val(last_daily_aggregation)
      ]_vars

\* C7 witness: the three rollups have all been made: a minute record carrying
\* an hourly average and a day record are persisted.
C7_Witness ==
    /\ \E i \in DOMAIN persisted : persisted[i].ups_realpower_hrs # None
    /\ DayRows(persisted) # <<>>
    /\ next_save_time # None /\ next_hour # None /\ last_daily_aggregation # None

\* C8: no two persisted day records carry the same timestamp.
C8_OneDayRecordPerDay == DistinctStamps(DayRows(persisted))

\* C9: in multi-UPS mode an ingestion that finds next_save_time due persists
\* one record reduced from the aggregate buffer and leaves the aggregate
\* buffer and the per-device buffers empty.
C9_MultiFlush ==
    [][(FoundDue /\ Ingested /\ Val(result').value[1]) =>
          /\ Len(persisted') = Len(persisted) + 1
          /\ aggregated_data' = <<>>
          /\ \A i \in DOMAIN per_ups_data' : per_ups_data'[i][2] = <<>>
      ]_vars

-----------------------------------------------------------------------------
(* Properties of the publisher *)

\* the view holds the metric as a number
NumericField(view, metric) ==
    DictHas(view, metric) /\ (IsNum(DictGet(view, metric)) \/ IsInt(DictGet(view, metric)))

\* the two views have the same status and every watched metric as a number
Comparable(view, prior) ==
    /\ DictFind(view, K_ups_status) = DictFind(prior, K_ups_status)
    /\ \A i \in DOMAIN important_metrics :
          NumericField(view, important_metrics[i]) /\ NumericField(prior, important_metrics[i])

\* some watched metric differs by 1.0 or more between the two views
MovedByOne(view, prior) ==
    \E i \in DOMAIN important_metrics :
        Abs(Val(ToFloat(DictGet(view, important_metrics[i])))
            - Val(ToFloat(DictGet(prior, important_metrics[i])))) >= Threshold

\* the gate between a view just computed and the last published one: one event
\* more exactly when a watched metric moved, and the published view kept when
\* there is none
Gate(view, prior, before, after, kept) ==
    Comparable(view, prior) =>
        /\ Len(after) = Len(before) + 1 <=> MovedByOne(view, prior)
        /\ Len(after) = Len(before) \/ Len(after) = Len(before) + 1
        /\ Len(after) = Len(before) => kept

\* the ups_load of the events emitted so far
EmittedLoads == [i \in DOMAIN emitted |-> DictGet(emitted[i].payload, K_ups_load)]

\* the buffer holds three online samples with loads 50, 50.4, 51.1, in this order
ExampleIngested ==
    /\ Len(data) = 3
    /\ \A i \in 1..3 : data[i][2] = PubReading(S_OL, <<5000, 5040, 5110>>[i])

\* C10: with a published view of the same status and the four watched metrics
\* numeric in both, an ingestion publishes if and only if a watched metric
\* differs by 1.0 or more from the last published view, in single-UPS mode
\* (the view of the sample) and in multi-UPS mode (the aggregated view); loads
\* 50, 50.4, 51.1 are published, suppressed, published.
C10_ChangeGate ==
    /\ [](ExampleIngested => EmittedLoads = <<Num(5000), Num(5110)>>)
    /\ [][/\ (Ingested /\ Len(data') = Len(data) + 1 /\ last_broadcast # None) =>
                 \A view \in {data'[Len(data')][2]}, prior \in {Val(last_broadcast)} :
                     Gate(view, prior, emitted, emitted',
                          last_broadcast' = last_broadcast)
          /\ (Ingested /\ Len(aggregated_data') = Len(aggregated_data) + 1
                 /\ last_broadcast_aggregated # None) =>
                 \A view \in {aggregated_data'[Len(aggregated_data')][2]},
                    prior \in {Val(last_broadcast_aggregated)} :
                     Gate(view, prior, emitted, emitted',
                          last_broadcast_aggregated' = last_broadcast_aggregated)
         ]_vars

\* C10 witness: the three loads have been ingested and two events emitted, the
\* published view still the one of 51.1.
C10_Witness ==
    /\ ExampleIngested
    /\ Len(emitted) = 2
    /\ DictGet(Val(last_broadcast), K_ups_load) = Num(5110)

-----------------------------------------------------------------------------
(* Properties of two concurrent ingestions *)

\* C4: with two ingestion calls running concurrently, at most one minute record
\* is persisted per boundary, and the frame a call reduces holds every sample
\* appended to the buffer: none is appended whose call has not yet rebuilt the
\* frame.
C4_OneLock ==
    /\ [](DistinctStamps(MinuteRows(persisted)))
    /\ [][\A t \in Threads :
            (pc[t] = "added" /\ pc'[t] = "reduced") => df = Some(data)]_vars

-----------------------------------------------------------------------------
(* Properties of the publisher: first view, status change, accessor *)

\* the last event emitted carries the view, under the given event name
PublishedNow(name, before, after, view) ==
    /\ Len(after) = Len(before) + 1
    /\ after[Len(after)].event = name
    /\ \A i \in DOMAIN view :
          DictFind(IF name = "cache_update" THEN after[Len(after)].payload
                   ELSE after[Len(after)].payload.aggregated, view[i][1]) = Some(view[i][2])

\* nothing was published before, or the status of the view is not the status
\* of the view published last
FirstOrStatusChange(view, prior) ==
    prior = None \/ DictFind(view, K_ups_status) # DictFind(Val(prior), K_ups_status)

\* C11: an ingestion whose non-empty view is the first one, or whose status
\* differs from the status of the view published last, publishes the view,
\* whatever its numeric fields: in single-UPS mode the view of the sample,
\* in multi-UPS mode the aggregated view.
C11_FirstAndStatusPublished ==
    [][/\ (Ingested /\ Len(data') = Len(data) + 1) =>
             \A view \in {data'[Len(data')][2]} :
                 (view # <<>> /\ FirstOrStatusChange(view, last_broadcast)) =>
                     PublishedNow("cache_update", emitted, emitted', view)
       /\ (Ingested /\ Len(aggregated_data') = Len(aggregated_data) + 1) =>
             \A view \in {aggregated_data'[Len(aggregated_data')][2]} :
                 (view # <<>> /\ FirstOrStatusChange(view, last_broadcast_aggregated)) =>
                     PublishedNow("multi_ups_update", emitted, emitted', view)
      ]_vars

\* C11 witness: two views published one after the other with the same watched
\* metrics and different statuses.
C11_Witness ==
    /\ Len(emitted) = 2
    /\ emitted[2].event = "cache_update"
    /\ DictFind(emitted[1].payload, K_ups_status) = Some(Txt(S_OL))
    /\ DictFind(emitted[2].payload, K_ups_status) = Some(Txt(S_OB))
    /\ \A i \in DOMAIN important_metrics :
          DictFind(emitted[1].payload, important_metrics[i])
              = DictFind(emitted[2].payload, important_metrics[i])

-----------------------------------------------------------------------------
(* The publisher fed by a device that leaves a variable out of its output, or
   prints one that float() does not parse *)

S_na == <<"n", "/", "a">>

\* the parsed output of a device that does not print the variable `key`
Unreported(reading, key) ==
    SelectIdx(reading, [i \in DOMAIN reading |-> reading[i][1] # key], 1)

\* the parsed output of a device that prints `text` for the variable `key`:
\* float(value) raises ValueError and the string is kept
Unparsed(reading, key, text) ==
    [i \in DOMAIN reading |-> IF reading[i][1] = key THEN <<key, Txt(text)>> ELSE reading[i]]

GateReadings ==
    {PubReading(S_OL, load) : load \in {5000, 5040, 5110}}
    \cup {Unreported(PubReading(S_OL, 5000), K_ups_load),
          Unparsed(PubReading(S_OL, 5000), K_ups_load, S_na)}

InitGate == Started(<<1>>)

NextGate ==
    \E r \in GateReadings : SaveSingle(DefaultInterval, DefaultInterval, r, "ok")

SpecGate == InitGate /\ [][NextGate]_vars

\* a watched metric is in exactly one of the two views, or is in both and not
\* a number in one of them
ForcedChange(view, prior) ==
    \E i \in DOMAIN important_metrics :
        LET metric == important_metrics[i]
        IN  \/ DictHas(view, metric) # DictHas(prior, metric)
            \/ /\ DictHas(view, metric) /\ DictHas(prior, metric)
               /\ ~(NumericField(view, metric) /\ NumericField(prior, metric))

\* C12: when a watched metric is present in exactly one of the new view and
\* the view published last, or is not a number in one of them, the ingestion
\* publishes the new view.
C12_MissingFieldForcesChange ==
    [][(Ingested /\ Len(data') = Len(data) + 1 /\ last_broadcast # None) =>
          \A view \in {data'[Len(data')][2]}, prior \in {Val(last_broadcast)} :
              ForcedChange(view, prior) => Len(emitted') = Len(emitted) + 1
      ]_vars

\* the events of the given name emitted so far
EventsNamed(name) ==
    SelectIdx(emitted, [i \in DOMAIN emitted |-> emitted[i].event = name], 1)

\* the accessor returns the payload of the last event emitted, or the empty
\* dict when there is none
ReturnsLastPublished(latest, events) ==
    IF events = <<>> THEN DOMAIN latest = {}
    ELSE DOMAIN latest # {} /\ latest = events[Len(events)].payload

-----------------------------------------------------------------------------
(* Properties of the buffer capacity *)

\* the buffer `after` begins with the entries of `before`, in order
IsPrefix(before, after) ==
    Len(before) <= Len(after) /\ \A i \in DOMAIN before : after[i] = before[i]

\* C14: a call removes entries of the buffer only by a successful flush, and
\* attempts a flush only when it finds the minute boundary due: a buffer at
\* or over its capacity, and a capacity resized under the buffered entries,
\* leave every entry in place.
C14_OnlyFlushRemoves ==
    [][Called =>
          /\ committed' # Some(TRUE) => IsPrefix(data, data')
          /\ committed' # None => FoundDue
          /\ IsPrefix(aggregated_data, aggregated_data')
      ]_vars

\* C14 witness: the capacity was resized to 5 under the buffered entries and
\* the buffer holds more than that, nothing flushed yet.
C14_Witness ==
    /\ size = MinBufferSize
    /\ Len(data) > size
    /\ is_full(St)
    /\ persisted = <<>>
    /\ committed = None

\* C15: after every ingestion the capacity is max(5, 60 div i), i the
\* sampling interval the call read.
C15_CapacityFollowsInterval ==
    [][Ingested =>
          size' = Max(MinBufferSize, CacheSeconds \div local'[1].polling_interval)
      ]_vars

-----------------------------------------------------------------------------
(* Properties of the field names *)

\* no dot in the field name
Canonical(key) == \A i \in DOMAIN key : key[i] # "."

\* the reading with every field name spelled with dots
DottedSpelling(reading) ==
    [i \in DOMAIN reading |-> <<Dotted(reading[i][1]), reading[i][2]>>]

\* every reading of the buffer has canonical field names, and is what add
\* stores for the same reading spelled with dots
CanonicalBuffer(buffer) ==
    \A i \in DOMAIN buffer :
        /\ \A k \in DOMAIN buffer[i][2] : Canonical(buffer[i][2][k][1])
        /\ FormatKeys(DottedSpelling(buffer[i][2]), <<>>) = buffer[i][2]

\* C16: every reading stored in the single-device buffer, in a per-device
\* buffer or in the aggregate buffer has field names without a dot, and is
\* the mapping stored for the same reading spelled with dots.
C16_CanonicalKeys ==
    /\ CanonicalBuffer(data)
    /\ \A d \in DOMAIN per_ups_data : CanonicalBuffer(per_ups_data[d][2])
    /\ CanonicalBuffer(aggregated_data)

-----------------------------------------------------------------------------
(* Properties of the failing collaborators *)

\* save_ups_data returned a (success, message) pair
ReturnedPair(r) ==
    /\ r # None
    /\ Val(r).call = "save_ups_data"
    /\ Len(Val(r).value) = 2
    /\ Val(r).value[1] \in BOOLEAN

\* in the call just made the connection monitor, the upsc command and the
\* websocket all worked, and so did the commit if one was made
Healthy ==
    /\ local'[1].connection = "connected"
    /\ \A i \in DOMAIN local'[1].acquired : local'[1].acquired[i] = "ok"
    /\ local'[1].transport
    /\ committed' # Some(FALSE)

\* C17: whichever collaborators fail in a call (the interval read, the
\* connection monitor, the upsc command, the commit, the websocket), the call
\* returns a (success, message) pair, and a call in which none fails, whatever
\* failed before it, ingests its reading and returns (True, None).
C17_FailuresContained ==
    [][Called =>
          /\ ReturnedPair(result')
          /\ Healthy =>
                /\ Val(result').value = <<TRUE, None>>
                /\ Len(emitted') >= Len(emitted)
                /\ Len(enabled_devices) <= 1 =>
                      \/ IsPrefix(data, data') /\ Len(data') = Len(data) + 1
                      \/ committed' = Some(TRUE) /\ Len(persisted') > Len(persisted)
                /\ Len(enabled_devices) > 1 =>
                      Len(aggregated_data') = Len(aggregated_data) + 1
      ]_vars

\* C17 witness: the first call failed at the connection monitor (unavailable,
\* or raising) and buffered nothing, and the second call has ingested its
\* reading.
C17_Witness ==
    /\ calls = 2
    /\ Len(data) = 1
    /\ local[1].connection = "connected"
    /\ local[1].acquired = <<"ok">>
    /\ Val(result).value = <<TRUE, None>>
    /\ size = CacheSeconds

\* C18: a call made with no device enabled, or with the connection parameters
\* of the device missing, returns (False, message) and appends nothing to any
\* buffer.
C18_ConfigurationFailure ==
    [][(/\ Called
        /\ Len(enabled_devices) <= 1
        /\ enabled_devices = <<>> \/ local'[1].acquired[1] = "missing_parameters") =>
          /\ ReturnedPair(result')
          /\ Val(result').value[1] = FALSE
          /\ Val(result').value[2] # None
          /\ data' = data
          /\ per_ups_data' = per_ups_data
          /\ aggregated_data' = aggregated_data
      ]_vars

\* the reading is a sentinel: a failure status and the numeric fields zero
IsSentinel(reading) ==
    /\ DictFind(reading, K_ups_status) \in {Some(Txt(S_ERROR)), Some(Txt(S_TIMEOUT)),
                                            Some(Txt(S_NO_DATA))}
    /\ \A key \in {K_battery_charge, K_battery_runtime, K_input_voltage, K_output_voltage} :
          DictHas(reading, key) /\ ToFloat(DictGet(reading, key)) = Some(0)

\* C19: in a multi-UPS call every enabled device contributes exactly one
\* reading to the map given to the aggregator, a sentinel (status ERROR,
\* TIMEOUT or NO_DATA, numeric fields zero) when its upsc command exits
\* non-zero, times out, prints nothing or raises: each per-device buffer gains
\* one reading and the aggregated view counts every enabled device.
C19_OneReadingPerDevice ==
    [][(Called /\ Len(enabled_devices) > 1) =>
          /\ Len(per_ups_data') = Len(enabled_devices)
          /\ \A i \in DOMAIN enabled_devices :
                \A before \in {DictGetOr(per_ups_data, enabled_devices[i], <<>>)},
                   after \in {DictGetOr(per_ups_data', enabled_devices[i], <<>>)} :
                    /\ Len(after) = Len(before) + 1
                    /\ DictFind(after[Len(after)][2], K_ups_id) = Some(IntV(enabled_devices[i]))
                    /\ local'[1].acquired[i] # "ok" => IsSentinel(after[Len(after)][2])
                    /\ local'[1].acquired[i] = "ok" => ~IsSentinel(after[Len(after)][2])
          /\ Len(aggregated_data') = Len(aggregated_data) + 1
          /\ DictFind(aggregated_data'[Len(aggregated_data')][2], K_ups_count)
                = Some(IntV(Len(enabled_devices)))
      ]_vars

\* C19 witness: the command of the first device timed out and the command of
\* the second raised; both devices have a sentinel in their buffer.
C19_Witness ==
    /\ Len(enabled_devices) = 2
    /\ calls = 1
    /\ local[1].acquired = <<"timeout", "raises">>
    /\ Len(per_ups_data) = 2
    /\ \A d \in DOMAIN per_ups_data :
          Len(per_ups_data[d][2]) = 1 /\ IsSentinel(per_ups_data[d][2][1][2])

-----------------------------------------------------------------------------
(* Properties of the worst status *)

\* `worst` is the first status of the list among those of maximal severity
FirstOfMaximalSeverity(statuses, worst) ==
    \E i \in DOMAIN statuses :
        /\ worst = statuses[i]
        /\ \A k \in DOMAIN statuses :
              get_status_priority(statuses[k]) <= get_status_priority(statuses[i])
        /\ \A k \in 1..(i - 1) :
              get_status_priority(statuses[k]) < get_status_priority(statuses[i])

\* C20: get_worst_status returns UNKNOWN for the empty list; for any other
\* list it returns one of its statuses, as written, of maximal severity and
\* the first of those; for OL, OB DISCHRG, LB it returns OB DISCHRG.
C20_WorstStatus ==
    (result # None /\ Val(result).call = "get_worst_status") =>
        /\ local[1] = <<>> => Val(result).value = Some(S_UNKNOWN)
        /\ local[1] # <<>> => FirstOfMaximalSeverity(local[1], Val(result).value)
        /\ local[1] = <<Some(S_OL), Some(S_OB_DISCHRG), Some(S_LB)>> =>
              Val(result).value = Some(S_OB_DISCHRG)

\* C20 witness: of "ol chrg", CHRG and OL, the first two of the same severity,
\* the status returned is "ol chrg", as written.
C20_Witness ==
    /\ result # None
    /\ Val(result).call = "get_worst_status"
    /\ local[1] = <<Some(S_ol_chrg), Some(S_CHRG), Some(S_OL)>>
    /\ Val(result).value = Some(S_ol_chrg)

-----------------------------------------------------------------------------
(* aggregate_ups_data and get_status_priority applied to a map of readings: the
   map is an argument of the caller, kept in its locals, and the value
   returned is the result *)

MaxDevices == 3

\* readings of devices as get_all_ups_data may hand them to the aggregator:
\* realpower 100.0 / 50.5 / 0, load 40 / 0 / 60 / 45.5, runtime 300 / 0 / 120,
\* a status in lower case, one with blanks around it, a device that reports neither
\* power nor load nor status, one whose load float() does not parse, and the
\* reading of a failed command
AggReadings ==
    {DictPut(Reading(S_OL, 4000, 10000), K_battery_runtime, Num(30000)),
     DictPut(Reading(S_OB_DISCHRG, 0, 5050), K_battery_runtime, Num(0)),
     DictPut(Reading(S_LB, 6000, 0), K_battery_runtime, Num(12000)),
     Reading(S_ol_chrg, 4550, 2500),
     Unreported(Unreported(Unreported(Reading(S_OL, 0, 0), K_ups_status),
                           K_ups_load), K_ups_realpower),
     Unparsed(Reading(<<" ", "o", "l", " ">>, 5000, 1000), K_ups_load, S_na),
     ErrorReading}

InitAgg ==
    /\ clock \in StartTimes
    /\ enabled_devices = <<>>
    /\ ups_devices = <<>>
    /\ manager = NewManager
    /\ size = CacheSeconds
    /\ data = <<>> /\ df = None /\ per_ups_data = <<>> /\ aggregated_data = <<>>
    /\ next_save_time = None /\ next_hour = None /\ hourly_data = <<>>
    /\ last_daily_aggregation = None
    /\ last_broadcast = None /\ last_broadcast_aggregated = None
    /\ last_broadcast_per_ups = <<>>
    /\ persisted = <<>> /\ emitted = <<>>
    /\ result = None /\ committed = None /\ calls = 0 /\ data_lock = None
    /\ pc = Idle
    /\ \E n \in 0..MaxDevices : \E readings \in [1..n -> AggReadings] :
           local = [t \in Threads |->
                       IF t = 1 THEN [i \in 1..n |-> <<i, WithId(i, readings[i])>>]
                       ELSE <<>>]

NextAgg ==
    /\ calls = 0
    /\ \/ result' = Returned("aggregate_ups_data", aggregate_ups_data(local[1]))
       \/ \E i \in DOMAIN local[1] :
              result' = Returned("get_status_priority",
                                 [status |-> StatusOf(local[1][i][2]),
                                  priority |-> get_status_priority(StatusOf(local[1][i][2]))])
    /\ calls' = calls + 1
    /\ UNCHANGED <<clock, enabled_devices, ups_devices, manager, size, data, df, per_ups_data, aggregated_data,
                   next_save_time, next_hour, hourly_data, last_daily_aggregation,
                   last_broadcast, last_broadcast_aggregated, last_broadcast_per_ups,
                   persisted, emitted, committed, data_lock, pc, local>>

SpecAgg == InitAgg /\ [][NextAgg]_vars

-----------------------------------------------------------------------------
(* Properties of the aggregator *)

\* a letter and its capital name the same letter
Fold(s) ==
    [i \in DOMAIN s |->
        CASE s[i] = "O" -> "o" [] s[i] = "L" -> "l" [] s[i] = "B" -> "b"
          [] s[i] = "C" -> "c" [] s[i] = "H" -> "h" [] s[i] = "R" -> "r"
          [] s[i] = "G" -> "g" [] OTHER -> s[i]]

\* the table keys equal to the trimmed status, and those occurring in it
KeysEqual(status) ==
    {i \in DOMAIN STATUS_PRIORITY : Fold(STATUS_PRIORITY[i][1]) = Fold(strip(status))}
KeysWithin(status) ==
    {i \in DOMAIN STATUS_PRIORITY : Contains(Fold(STATUS_PRIORITY[i][1]), Fold(status))}

\* the severity the table gives a status, an Optional string
Severity(status) ==
    IF status = None \/ Val(status) = <<>> THEN 0
    ELSE IF KeysEqual(Val(status)) # {}
    THEN STATUS_PRIORITY[CHOOSE i \in KeysEqual(Val(status)) : TRUE][2]
    ELSE IF KeysWithin(Val(status)) = {} THEN 0
    ELSE CHOOSE p \in {STATUS_PRIORITY[i][2] : i \in KeysWithin(Val(status))} :
             \A i \in KeysWithin(Val(status)) : STATUS_PRIORITY[i][2] <= p

\* C21: get_status_priority gives a status that equals a table key, letter
\* case and surrounding blanks aside, the severity of that key; any other
\* status the greatest severity of the keys occurring in it, and 0 when none
\* occurs or the status is empty; "ol chrg" has the severity 2 of CHRG.
C21_Severity ==
    (result # None /\ Val(result).call = "get_status_priority") =>
        /\ Val(result).value.priority = Severity(Val(result).value.status)
        /\ Val(result).value.status = Some(S_ol_chrg) =>
              /\ Val(result).value.priority = 2
              /\ Val(result).value.priority = DictGet(STATUS_PRIORITY, S_CHRG)

\* "ol chrg", no key of the table, got the severity of CHRG, the greater of
\* the two keys occurring in it
C21_Witness ==
    /\ result # None
    /\ Val(result).call = "get_status_priority"
    /\ Val(result).value.status = Some(S_ol_chrg)
    /\ KeysEqual(S_ol_chrg) = {}
    /\ Cardinality(KeysWithin(S_ol_chrg)) = 2
    /\ Val(result).value.priority = 2

\* what a device reports for a metric, in hundredths: 0 when the metric is
\* missing or is not a number
Reported(reading, key) ==
    IF ~DictHas(reading, key) THEN 0
    ELSE IF IsNum(DictGet(reading, key)) THEN DictGet(reading, key).n
    ELSE IF IsInt(DictGet(reading, key)) THEN 100 * DictGet(reading, key).i
    ELSE 0

ReportedBy(all_ups_data, key) ==
    [i \in DOMAIN all_ups_data |-> Reported(all_ups_data[i][2], key)]

\* the devices reporting more than 0, and the sum of what they report
Reporting(values) == {i \in DOMAIN values : values[i] > 0}
SumReporting(values) ==
    SumSeq([i \in DOMAIN values |-> IF values[i] > 0 THEN values[i] ELSE 0])

\* a number of the record returned, in hundredths
Metric(record, key) ==
    IF IsInt(DictGet(record, key)) THEN 100 * DictGet(record, key).i
    ELSE DictGet(record, key).n

\* v is the mean of the values above 0, or 0 when there is none
IsMean(v, values) ==
    IF Reporting(values) = {} THEN v = 0
    ELSE v * Cardinality(Reporting(values)) = SumReporting(values)

\* v is that mean rounded to one decimal
IsMeanToOneDecimal(v, values) ==
    IF Reporting(values) = {} THEN v = 0
    ELSE /\ v % 10 = 0
         /\ 2 * Abs(v * Cardinality(Reporting(values)) - SumReporting(values))
                <= 10 * Cardinality(Reporting(values))

\* v is the least of the values above 0, or 0 when there is none
IsMin(v, values) ==
    IF Reporting(values) = {} THEN v = 0
    ELSE /\ \E i \in Reporting(values) : v = values[i]
         /\ \A i \in Reporting(values) : v <= values[i]

\* v is that least value rounded to a whole number
IsMinToWhole(v, values) ==
    IF Reporting(values) = {} THEN v = 0
    ELSE /\ v % 100 = 0
         /\ \E i \in Reporting(values) :
               /\ 2 * Abs(v - values[i]) <= 100
               /\ \A k \in Reporting(values) : values[i] <= values[k]

Averaged == {K_ups_load, K_battery_charge, K_input_voltage, K_output_voltage}

AggregatedSome ==
    /\ result # None
    /\ Val(result).call = "aggregate_ups_data"
    /\ local[1] # <<>>

\* C22, as the specification states it: for a non-empty map the record's
\* realpower is the sum over all devices, its load, battery charge and
\* voltages are the means over the devices reporting more than 0, and its
\* battery runtime is the least runtime above 0 (0 when no device reports one).
C22_AggregateMetrics ==
    AggregatedSome =>
        /\ Metric(Val(result).value, K_ups_realpower)
              = SumSeq(ReportedBy(local[1], K_ups_realpower))
        /\ \A key \in Averaged :
              IsMean(Metric(Val(result).value, key), ReportedBy(local[1], key))
        /\ IsMin(Metric(Val(result).value, K_battery_runtime),
                 ReportedBy(local[1], K_battery_runtime))

\* C22, amended: the means are rounded to one decimal and the least runtime to
\* a whole number; the sum is as stated.
C22_AggregateMetricsRounded ==
    AggregatedSome =>
        /\ Metric(Val(result).value, K_ups_realpower)
              = SumSeq(ReportedBy(local[1], K_ups_realpower))
        /\ \A key \in Averaged :
              IsMeanToOneDecimal(Metric(Val(result).value, key),
                                 ReportedBy(local[1], key))
        /\ IsMinToWhole(Metric(Val(result).value, K_battery_runtime),
                        ReportedBy(local[1], K_battery_runtime))

\* C22 witness: three devices with realpower 100.0, 50.5, 0, loads 40, 0, 60
\* and runtimes 300, 0, 120 gave realpower 150.5, load 50.0 and runtime 120.
C22_Witness ==
    /\ AggregatedSome
    /\ ReportedBy(local[1], K_ups_realpower) = <<10000, 5050, 0>>
    /\ ReportedBy(local[1], K_ups_load) = <<4000, 0, 6000>>
    /\ ReportedBy(local[1], K_battery_runtime) = <<30000, 0, 12000>>
    /\ Metric(Val(result).value, K_ups_realpower) = 15050
    /\ Metric(Val(result).value, K_ups_load) = 5000
    /\ Metric(Val(result).value, K_battery_runtime) = 12000

Aggregated ==
    /\ result # None
    /\ Val(result).call = "aggregate_ups_data"

\* the status of the device contains "OL" or "CHRG", in either letter case
OnlineByStatus(reading) ==
    /\ DictHas(reading, K_ups_status)
    /\ IsTxt(DictGet(reading, K_ups_status))
    /\ \/ Contains(Fold(S_OL), Fold(DictGet(reading, K_ups_status).s))
       \/ Contains(Fold(S_CHRG), Fold(DictGet(reading, K_ups_status).s))

OnlineIn(all_ups_data) ==
    Cardinality({i \in DOMAIN all_ups_data : OnlineByStatus(all_ups_data[i][2])})

\* total, online and offline count of the record are those of the map
CountsAsStated(record, all_ups_data) ==
    /\ DictFind(record, K_ups_count) = Some(IntV(Len(all_ups_data)))
    /\ DictFind(record, K_ups_online_count) = Some(IntV(OnlineIn(all_ups_data)))
    /\ DictFind(record, K_ups_offline_count)
          = Some(IntV(Len(all_ups_data) - OnlineIn(all_ups_data)))

\* C23: for every input map the record's total count is the number of
\* devices, its online count the number of devices whose status contains "OL"
\* or "CHRG" in either letter case, and its offline count total - online.
C23_Counts ==
    Aggregated => CountsAsStated(Val(result).value, local[1])

NumericMetrics ==
    {K_ups_realpower, K_ups_load, K_battery_charge, K_battery_runtime,
     K_input_voltage, K_output_voltage}

\* C24: aggregating no device returns a record with status UNKNOWN, every
\* numeric metric 0, and the total, online and offline counts present and 0.
C24_EmptyAggregate ==
    (Aggregated /\ local[1] = <<>>) =>
        /\ DictFind(Val(result).value, K_ups_status) = Some(Txt(S_UNKNOWN))
        /\ \A key \in NumericMetrics :
              /\ DictHas(Val(result).value, key)
              /\ Metric(Val(result).value, key) = 0
        /\ \A key \in {K_ups_count, K_ups_online_count, K_ups_offline_count} :
              DictFind(Val(result).value, key) = Some(IntV(0))

\* C25: every record aggregate_ups_data returns, that of the empty map
\* included, carries the flag is_aggregated, set.
C25_DerivedFlag ==
    Aggregated => DictFind(Val(result).value, K_is_aggregated) = Some(Bool(TRUE))

-----------------------------------------------------------------------------
(* calculate_averages applied to the buffer that ingestion has filled: the
   driver polls faster than the minute, so that no flush empties the buffer *)

\* readings with loads 10, 20, 30 and statuses OL, OL, OB, the reading of a
\* failed command, which has no load and carries an error text, and one whose
\* load float() does not parse
ReduceReadings ==
    {Reading(S_OL, 1000, 10000), Reading(S_OL, 2000, 10000), Reading(S_OB, 3000, 10000),
     ErrorReading, Unparsed(Reading(S_OL, 1000, 10000), K_ups_load, S_na)}

InitReduce == Started(<<1>>)

NextReduce ==
    \/ \E r \in ReduceReadings : SaveSingle(0, DefaultInterval, r, "ok")
    \/ /\ result' = Returned("calculate_averages", calculate_averages(df))
       /\ UNCHANGED <<clock, enabled_devices, ups_devices, manager, size, data, df, per_ups_data,
                      aggregated_data, next_save_time, next_hour, hourly_data,
                      last_daily_aggregation, last_broadcast, last_broadcast_aggregated,
                      last_broadcast_per_ups, persisted, emitted, committed, calls,
                      data_lock, pc, local>>

SpecReduce == InitReduce /\ [][NextReduce]_vars

-----------------------------------------------------------------------------
(* Properties of the reduction *)

Reduced ==
    /\ result # None
    /\ Val(result).call = "calculate_averages"

\* the fields observed in the buffer, and the entries carrying a field
FieldsOf(buffer) ==
    UNION {{buffer[i][2][k][1] : k \in DOMAIN buffer[i][2]} : i \in DOMAIN buffer}
Carrying(buffer, key) == {i \in DOMAIN buffer : DictHas(buffer[i][2], key)}

\* every buffered value of the field is a number
AllNumeric(buffer, key) ==
    \A i \in Carrying(buffer, key) :
        IsNum(DictGet(buffer[i][2], key)) \/ IsInt(DictGet(buffer[i][2], key))

\* the sum, in hundredths, of the buffered values of a numeric field
SumCarried(buffer, key) == SumSeq([i \in DOMAIN buffer |-> Reported(buffer[i][2], key)])

\* the last entry's value of a field the last entry carries
LastValueWins(record, buffer, key) ==
    DictHas(buffer[Len(buffer)][2], key) =>
        DictFind(record, key) = Some(DictGet(buffer[Len(buffer)][2], key))

\* C26, as the specification states it: reducing a non-empty buffer gives a
\* numeric field the arithmetic mean over the entries that carry it and any
\* other field the value of the last entry; an empty buffer gives no record.
C26_Reduce ==
    Reduced =>
        /\ data = <<>> => Val(result).value = None
        /\ data # <<>> =>
              /\ Val(result).value # None
              /\ \A key \in FieldsOf(data) :
                    IF AllNumeric(data, key)
                    THEN /\ DictHas(Val(Val(result).value), key)
                         /\ Metric(Val(Val(result).value), key)
                               * Cardinality(Carrying(data, key))
                               = SumCarried(data, key)
                    ELSE LastValueWins(Val(Val(result).value), data, key)

\* C26, amended: the mean is rounded to two decimals.
C26_ReduceRounded ==
    Reduced =>
        /\ data = <<>> => Val(result).value = None
        /\ data # <<>> =>
              /\ Val(result).value # None
              /\ \A key \in FieldsOf(data) :
                    IF AllNumeric(data, key)
                    THEN /\ DictHas(Val(Val(result).value), key)
                         /\ 2 * Abs(Metric(Val(Val(result).value), key)
                                        * Cardinality(Carrying(data, key))
                                    - SumCarried(data, key))
                               <= Cardinality(Carrying(data, key))
                    ELSE LastValueWins(Val(Val(result).value), data, key)

\* C26 witness: loads 10, 20, 30 with statuses OL, OL, OB were reduced to load
\* 20 and status OB.
C26_Witness ==
    /\ Reduced
    /\ Len(data) = 3
    /\ [i \in 1..3 |-> DictFind(data[i][2], K_ups_load)]
          = <<Some(Num(1000)), Some(Num(2000)), Some(Num(3000))>>
    /\ [i \in 1..3 |-> DictFind(data[i][2], K_ups_status)]
          = <<Some(Txt(S_OL)), Some(Txt(S_OL)), Some(Txt(S_OB))>>
    /\ DictGet(Val(Val(result).value), K_ups_load) = Num(2000)
    /\ DictGet(Val(Val(result).value), K_ups_status) = Txt(S_OB)

\* the latest entry of the buffer that carries the field
LatestCarrying(buffer, key) ==
    CHOOSE i \in Carrying(buffer, key) : \A k \in Carrying(buffer, key) : k <= i

\* C28: a field that is not numeric, absent from the last entry of the buffer
\* and present in an earlier one, is reduced to the value of the latest entry
\* that carries it.
C28_LastCarriedValue ==
    (Reduced /\ data # <<>> /\ Val(result).value # None) =>
        \A key \in FieldsOf(data) :
            (~AllNumeric(data, key) /\ ~DictHas(data[Len(data)][2], key)) =>
                DictFind(Val(Val(result).value), key)
                    = Some(DictGet(data[LatestCarrying(data, key)][2], key))

-----------------------------------------------------------------------------
(* Properties of the hour rollup *)

\* the call just made wrote a minute record, at or after the hour boundary
WroteAtHourBoundary ==
    /\ Called
    /\ committed' = Some(TRUE)
    /\ next_hour # None
    /\ clock' >= Val(next_hour)

\* the hour rollup of the boundary the call started with: the mean of the
\* persisted records of the hour before it is attached to the record written,
\* the accumulation list is cleared and the boundary is advanced
HourRollupDone ==
    /\ NewMinuteRow.ups_realpower_hrs
          = HourlyAverage(persisted, Val(next_hour) - Hour, Val(next_hour))
    /\ hourly_data' = <<>>
    /\ next_hour' # None
    /\ Val(next_hour') > clock'

\* C27: a minute rollup written at or after next_hour performs the hour
\* rollup in the same write, whether or not the minute record holds a
\* real-power value.
C27_HourRollupWithWrite ==
    [][WroteAtHourBoundary => HourRollupDone]_vars

-----------------------------------------------------------------------------
(* add and add_multi_ups called on one cache, as save_ups_data calls them when
   the registry holds one device or several; a call of add_multi_ups may bring
   the readings of any of the devices *)

MaxAddCalls == 3

InitAddMulti == Started(<<1, 2>>)

NextAddMulti ==
    /\ calls < MaxAddCalls
    /\ \/ \E ids \in {<<>>, <<1>>, <<2>>, <<1, 2>>} : \E r \in [DOMAIN ids -> Readings] :
             \E a \in {[i \in DOMAIN ids |-> <<ids[i], WithId(ids[i], r[i])>>]} :
                 /\ Assign(add_multi_ups(St, clock + 30, a, clock + 30))
                 /\ result' = Returned("add_multi_ups", a)
       \/ \E r \in Readings :
             /\ Assign(add(St, clock + 30, r, clock + 30))
             /\ result' = Returned("add", r)
    /\ clock' = clock + 30
    /\ calls' = calls + 1
    /\ UNCHANGED <<enabled_devices, ups_devices, manager, committed, data_lock, pc, local>>

SpecAddMulti == InitAddMulti /\ [][NextAddMulti]_vars

-----------------------------------------------------------------------------
(* Properties of the buffers *)

\* no entry of the buffer is older than an entry before it
Ordered(buffer) ==
    \A i, k \in DOMAIN buffer : i < k => buffer[i][1] <= buffer[k][1]

\* C29: in every buffer each entry's timestamp is at least the timestamp of
\* every earlier entry, whatever the interleaving of the ingestion calls,
\* the wall clock never going back.
C29_TimestampsOrdered ==
    /\ Ordered(data)
    /\ Ordered(aggregated_data)
    /\ \A i \in DOMAIN per_ups_data : Ordered(per_ups_data[i][2])

\* the call just made is add_multi_ups
AddedMulti == Called /\ result' # None /\ Val(result').call = "add_multi_ups"

\* exactly one entry, stamped with the time of the call, is appended
OneAppended(before, after, timestamp) ==
    /\ Len(after) = Len(before) + 1
    /\ SubSeq(after, 1, Len(before)) = before
    /\ after[Len(after)][1] = timestamp

\* C30: add_multi_ups with the readings of a set D of devices appends one
\* entry to the buffer of each device of D and one entry, the aggregate of the
\* readings, to the aggregate buffer; the buffers of the other devices, the
\* single-device buffer and its prior view, and the boundaries are unchanged,
\* except next_save_time when it is set for the first time.
C30_AddMultiFrame ==
    [][AddedMulti =>
          \A a \in {Val(result').value} :
              /\ \A i \in DOMAIN a :
                    /\ DictHas(per_ups_data', a[i][1])
                    /\ OneAppended(DictGetOr(per_ups_data, a[i][1], <<>>),
                                   DictGet(per_ups_data', a[i][1]), clock')
              /\ aggregated_data' = Append(aggregated_data, <<clock', aggregate_ups_data(a)>>)
              /\ \A k \in DOMAIN per_ups_data :
                    (\A i \in DOMAIN a : a[i][1] # per_ups_data[k][1]) =>
                        DictFind(per_ups_data', per_ups_data[k][1]) = Some(per_ups_data[k][2])
              /\ Len(per_ups_data') = Cardinality({per_ups_data[k][1] : k \in DOMAIN per_ups_data}
                                                  \cup {a[i][1] : i \in DOMAIN a})
              /\ data' = data /\ df' = df /\ last_broadcast' = last_broadcast
              /\ next_hour' = next_hour
              /\ last_daily_aggregation' = last_daily_aggregation
              /\ \/ next_save_time' = next_save_time
                 \/ next_save_time = None /\ next_save_time' # None]_vars

\* C30 witness: after a single-device sample and a poll of both devices,
\* add_multi_ups was called with a reading of device 1 alone; the buffer of
\* device 2 holds one entry, that of device 1 two.
C30_Witness ==
    /\ result # None
    /\ Val(result).call = "add_multi_ups"
    /\ Len(Val(result).value) = 1
    /\ Val(result).value[1][1] = 1
    /\ data # <<>>
    /\ last_broadcast # None
    /\ Len(aggregated_data) = 2
    /\ DictHas(per_ups_data, 2) /\ Len(DictGet(per_ups_data, 2)) = 1
    /\ DictHas(per_ups_data, 1) /\ Len(DictGet(per_ups_data, 1)) = 2

-----------------------------------------------------------------------------
(* Properties of the day boundary *)

\* 04:00 UTC of the day of t
FourOClock(t) == t - (t % Day) + DailyHour * Hour

\* C31: the first daily check sets the day boundary to 04:00 UTC of the
\* current day when the clock is before 04:00 UTC and to 04:00 UTC of the next
\* day otherwise, and writes no day record.
C31_FirstDailyCheck ==
    [][(last_daily_aggregation = None /\ last_daily_aggregation' # None) =>
          /\ clock' < FourOClock(clock') =>
                Val(last_daily_aggregation') = FourOClock(clock')
          /\ clock' >= FourOClock(clock') =>
                Val(last_daily_aggregation') = FourOClock(clock') + Day
          /\ DayRows(persisted') = DayRows(persisted)]_vars

\* C31 witness: the first minute record was written before 04:00 UTC, and the
\* day boundary is 04:00 UTC of the same day, still ahead of the clock.
C31_Witness ==
    /\ Len(persisted) = 1
    /\ last_daily_aggregation = Some(FourOClock(clock))
    /\ clock < FourOClock(clock)

-----------------------------------------------------------------------------
(* Properties of the samples *)

\* the buffer as the call just made reduced it: the samples retained, with the
\* sample an ingestion appended at clock' behind them
Reducible ==
    IF Ingested
    THEN {Append(data, <<clock', FormatKeys(r, <<>>)>>) : r \in Readings}
    ELSE {data}

\* C32: with one ingestion thread and one device, samples leave the buffer
\* only in a call whose write succeeds, all together, and the one minute record
\* that call persists is the reduction of exactly those samples; a call that
\* persists no minute record, a failed flush included, keeps every sample.
C32_SampleInOneRollup ==
    [][Called =>
          /\ persisted' # persisted =>
                /\ committed' = Some(TRUE)
                /\ Len(persisted') > Len(persisted)
                /\ SubSeq(persisted', 1, Len(persisted)) = persisted
                /\ \A i \in (Len(persisted) + 1)..Len(persisted') :
                      IsDayRow(persisted'[i]) <=> i > Len(persisted) + 1
                /\ data' = <<>>
                /\ \E frame \in Reducible :
                      \E averages \in {calculate_averages(Some(frame))} :
                          persisted'[Len(persisted) + 1].values = Val(averages)
          /\ persisted' = persisted => BufferKept]_vars

\* C32 witness: three samples, two with battery charge 100 and one with 0, were
\* reduced into the only record persisted, and the buffer is empty.
C32_Witness ==
    /\ committed = Some(TRUE)
    /\ data = <<>>
    /\ Len(persisted) = 1
    /\ DictFind(persisted[1].values, K_battery_charge) = Some(Num(6667))

-----------------------------------------------------------------------------
(* Properties of the multi-UPS publisher *)

\* the status in the newest buffered view of a device
LatestStatus(buffers, ups_id) ==
    LET buffer == DictGet(buffers, ups_id)
    IN  DictFind(buffer[Len(buffer)][2], K_ups_status)

\* the status in the stored view of a device
StoredStatus(stored, ups_id) ==
    LET i == CHOOSE i \in DOMAIN stored : stored[i][1] = ups_id
    IN  DictFind(stored[i][2], K_ups_status)

\* C33: in multi-UPS mode an ingestion publishes exactly when nothing was
\* published before, or the aggregated status differs from the one published
\* last, or a watched aggregated metric differs from it by 1.0 or more, whatever
\* the views of the devices are; the stored views of the devices are replaced
\* by the new ones in the ingestions that publish and in no other.
C33_AggregateViewDecides ==
    [][(Ingested /\ Len(aggregated_data') = Len(aggregated_data) + 1) =>
          \A view \in {aggregated_data'[Len(aggregated_data')][2]} :
              /\ Len(emitted') = Len(emitted) + 1 <=>
                     \/ FirstOrStatusChange(view, last_broadcast_aggregated)
                     \/ MovedByOne(view, Val(last_broadcast_aggregated))
              /\ Len(emitted') = Len(emitted) \/ Len(emitted') = Len(emitted) + 1
              /\ Len(emitted') = Len(emitted) + 1 <=>
                     last_broadcast_per_ups' # last_broadcast_per_ups
              /\ Len(emitted') = Len(emitted) + 1 =>
                     /\ PublishedNow("multi_ups_update", emitted, emitted', view)
                     /\ last_broadcast_per_ups' = emitted'[Len(emitted')].payload.individual
                     /\ \A i \in DOMAIN enabled_devices :
                           StoredStatus(last_broadcast_per_ups', enabled_devices[i])
                               = LatestStatus(per_ups_data', enabled_devices[i])
              /\ Len(emitted') = Len(emitted) =>
                     last_broadcast_aggregated' = last_broadcast_aggregated
      ]_vars

\* C33 witness: the second device went from online to on battery and the load
\* of the first from 50 to 51 percent while the first stayed on battery; the
\* aggregated status is the same and the aggregated load moved by 0.5, nothing
\* was published and the stored view of the second device is still online.
C33_Witness ==
    /\ calls = 2
    /\ Len(emitted) = 1
    /\ LatestStatus(per_ups_data, 2) = Some(Txt(S_OB))
    /\ StoredStatus(last_broadcast_per_ups, 2) = Some(Txt(S_OL))
    /\ DictFind(aggregated_data[2][2], K_ups_load) = Some(Num(5050))
    /\ DictFind(Val(last_broadcast_aggregated), K_ups_load) = Some(Num(5000))

\* the stored view is the given view under a timestamp
StoredView(stored, view) ==
    /\ stored # None
    /\ Len(Val(stored)) = Len(view) + 1
    /\ \A i \in DOMAIN view : DictFind(Val(stored), view[i][1]) = Some(view[i][2])

\* no event emitted carries the stored view
Unobserved(stored) ==
    \A i \in DOMAIN emitted :
        /\ emitted[i].event = "cache_update" => emitted[i].payload # Val(stored)
        /\ emitted[i].event = "multi_ups_update" => emitted[i].payload.aggregated # Val(stored)

\* the view passes the test against the stored one
PassesGate(view, stored) ==
    FirstOrStatusChange(view, stored) \/ MovedByOne(view, Val(stored))

\* what C34 says of a view just appended, given the stored view before and
\* after the call
EmitFailure(view, stored, stored_after) ==
    /\ ~local'[1].transport =>
          /\ emitted' = emitted
          /\ PassesGate(view, stored) => StoredView(stored_after, view)
    /\ (StoredView(stored, view) /\ Unobserved(stored)) =>
          /\ emitted' = emitted
          /\ stored_after = stored

\* C34: a call in which websocket.emit raises returns (True, None) and has
\* appended its sample to the buffer, emits nothing, and has stored the view
\* it would have published as the view published last; a following call with
\* the same view emits nothing, though no event carries that view. In
\* single-UPS mode for the view of the sample, in multi-UPS mode for the
\* aggregated view.
C34_EmitFailureStored ==
    [][Called =>
          /\ Val(result').value = <<TRUE, None>>
          /\ Len(enabled_devices) = 1 =>
                /\ Len(data') = Len(data) + 1 /\ IsPrefix(data, data')
                /\ EmitFailure(data'[Len(data')][2], last_broadcast, last_broadcast')
          /\ Len(enabled_devices) > 1 =>
                /\ Len(aggregated_data') = Len(aggregated_data) + 1
                /\ IsPrefix(aggregated_data, aggregated_data')
                /\ EmitFailure(aggregated_data'[Len(aggregated_data')][2],
                               last_broadcast_aggregated, last_broadcast_aggregated')
      ]_vars

\* C34 witness: two calls with the same view, the first with websocket.emit
\* raising and the second with it working; both samples are buffered, the view
\* is stored and no event was emitted.
C34_Witness ==
    /\ calls = 2
    /\ Len(data) = 2
    /\ data[1][2] = data[2][2]
    /\ local[1].transport
    /\ StoredView(last_broadcast, data[2][2])
    /\ emitted = <<>>

-----------------------------------------------------------------------------
(* Properties of a failed daily aggregation *)

\* the daily checks noted so far
DailyChecks == local[1]

\* the call just made found the day boundary due
AdvancedNow ==
    /\ last_daily_aggregation # None
    /\ last_daily_aggregation' # last_daily_aggregation

\* C35: the day boundary moves, by one day, only in a call whose minute record
\* was committed, whether or not the day record is then written; and once a
\* daily aggregation has run for a day without writing a day record, no later
\* call writes a day record for that day.
C35_FailedDayStaysUnrecorded ==
    /\ [][AdvancedNow =>
             /\ committed' = Some(TRUE)
             /\ Val(last_daily_aggregation') = Val(last_daily_aggregation) + Day
             /\ Len(DailyChecks') = Len(DailyChecks) + 1]_vars
    /\ [](\A i, k \in DOMAIN DailyChecks :
             (i < k /\ ~DailyChecks[i].wrote /\ DailyChecks[k].day = DailyChecks[i].day)
                 => ~DailyChecks[k].wrote)

-----------------------------------------------------------------------------
(* Properties of the aggregated status when commands fail *)

\* the statuses get_all_ups_data and get_ups_data give a failed read
FailureStatuses == {S_ERROR, S_TIMEOUT, S_NOCOMM, S_NO_DATA}

\* the newest buffered view of a device
LatestView(buffers, ups_id) ==
    LET buffer == DictGet(buffers, ups_id) IN buffer[Len(buffer)][2]

\* C36: when the aggregated view of a multi-UPS ingestion carries the status
\* of a failed read (ERROR, TIMEOUT, NOCOMM, NO_DATA), the status of every
\* device in that ingestion has severity 0, which is the severity of the four
\* failure statuses: with one device read as OL, the aggregated status is
\* never the one of the failed device.
C36_FailureNeverOutranks ==
    [][(Ingested /\ Len(aggregated_data') = Len(aggregated_data) + 1) =>
          \A status \in {StatusOf(aggregated_data'[Len(aggregated_data')][2])} :
              /\ status # None
              /\ \A failure \in FailureStatuses : get_status_priority(Some(failure)) = 0
              /\ Val(status) \in FailureStatuses =>
                    \A i \in DOMAIN enabled_devices :
                        Severity(StatusOf(LatestView(per_ups_data', enabled_devices[i]))) = 0
              /\ (\E i \in DOMAIN enabled_devices :
                     StatusOf(LatestView(per_ups_data', enabled_devices[i])) = Some(S_OL))
                    => status = Some(S_OL)
      ]_vars

\* C36 witness: the command of the first device timed out and the one of the
\* second exited with an error; the aggregated status is TIMEOUT.
C36_Witness ==
    /\ Len(aggregated_data) = 1
    /\ StatusOf(aggregated_data[1][2]) = Some(S_TIMEOUT)
    /\ StatusOf(LatestView(per_ups_data, 1)) = Some(S_TIMEOUT)
    /\ StatusOf(LatestView(per_ups_data, 2)) = Some(S_ERROR)

-----------------------------------------------------------------------------
(* Properties of the device table and of the management requests *)

\* the call just made is a request of that name
Requested(call) == Called /\ Val(result').call = call

\* the id of the request just made, and its row before the request
RequestId == local'[1].ups_id
RequestRow == UPSDevice_get_by_id(ups_devices, RequestId)

\* the ids in the manager's map
LoadedIds(m) == {m.devices[i][1] : i \in DOMAIN m.devices}

\* C37: the device table always holds at least one enabled device.
C37_EnabledDeviceRemains == EnabledCount(ups_devices) >= 1

\* C38: a delete request for an existing device, made while the table holds
\* more than one, removes the row, is answered with 200, and leaves the
\* manager reloaded: the device is no longer in its map.
C38_DeleteReloads ==
    [][(Requested("delete_device") /\ RequestRow # None /\ Len(ups_devices) > 1) =>
          /\ UPSDevice_get_by_id(ups_devices', RequestId) = None
          /\ Len(ups_devices') = Len(ups_devices) - 1
          /\ Val(result').value = 200
          /\ RequestId \notin LoadedIds(manager')
      ]_vars

\* C39: an update or a delete request for an id that is not in the table is
\* answered with 404 and changes neither the table nor the manager.
C39_UnknownIdNotFound ==
    [][((Requested("update_device") \/ Requested("delete_device")) /\ RequestRow = None) =>
          /\ Val(result').value = 404
          /\ ups_devices' = ups_devices
          /\ manager' = manager
      ]_vars

-----------------------------------------------------------------------------
(* Properties of the manager *)

Accessors == {"get_all_enabled", "get_primary", "get_by_id", "get_by_name"}

\* the configs of the map, in order
Configs(m) == [i \in DOMAIN m.devices |-> m.devices[i][2]]

\* the first config of the map among those kept, an Optional
FirstConfig(m, keep) ==
    IF \E i \in DOMAIN m.devices : keep[i]
    THEN Some(Configs(m)[CHOOSE i \in DOMAIN m.devices :
                             keep[i] /\ \A k \in 1..(i - 1) : ~keep[k]])
    ELSE None

\* the value is what the accessor finds in the map m
FromMap(call, args, value, m) ==
    CASE call = "get_all_enabled" ->
             /\ Len(value) = Cardinality({i \in DOMAIN m.devices : Configs(m)[i].is_enabled})
             /\ \A i \in DOMAIN value :
                   value[i].is_enabled /\ \E k \in DOMAIN m.devices : Configs(m)[k] = value[i]
             /\ \A i, k \in DOMAIN value : i # k => value[i] # value[k]
      [] call = "get_primary" ->
             IF \E i \in DOMAIN m.devices : Configs(m)[i].is_primary /\ Configs(m)[i].is_enabled
             THEN value = FirstConfig(m, [i \in DOMAIN m.devices |->
                                             Configs(m)[i].is_primary /\ Configs(m)[i].is_enabled])
             ELSE value = FirstConfig(m, [i \in DOMAIN m.devices |-> Configs(m)[i].is_enabled])
      [] call = "get_by_id" ->
             value = FirstConfig(m, [i \in DOMAIN m.devices |-> m.devices[i][1] = args.ups_id])
      [] call = "get_by_name" ->
             value = FirstConfig(m, [i \in DOMAIN m.devices |-> Configs(m)[i].name = args.name])

\* C40: a call of get_all_enabled, get_primary, get_by_id or get_by_name on
\* an initialised manager reads neither the database nor the NUT files, leaves
\* the manager as it is and answers from its map, whatever the table holds by
\* then; reload reads the database once, and the NUT files once when the
\* database gave no enabled device and not at all when it gave one; the
\* accessors that follow a reload that loaded nothing do not read the NUT
\* files again.
C40_LoadOnceUntilReload ==
    [][/\ (Called /\ Val(result').call \in Accessors /\ manager.initialized) =>
             /\ Val(result').value.db_reads = 0
             /\ Val(result').value.file_reads = 0
             /\ manager' = manager
             /\ FromMap(Val(result').call, local'[1], Val(result').value.ret, manager)
       /\ (Called /\ Val(result').call \in Accessors /\ manager.config_files_checked) =>
             Val(result').value.file_reads = 0
       /\ Requested("reload") =>
             /\ Val(result').value.db_reads = 1
             /\ Val(result').value.file_reads =
                    (IF local'[1].db_ok /\ EnabledCount(ups_devices) >= 1 THEN 0 ELSE 1)
             /\ (local'[1].db_ok /\ EnabledCount(ups_devices) >= 1) =>
                    LoadedIds(manager') = {ups_devices[i].id :
                                              i \in {k \in DOMAIN ups_devices :
                                                        ups_devices[k].is_enabled}}
      ]_vars

\* C40 witness: the map was loaded with the devices 1 and 2, device 2 is gone
\* from the table since, and get_by_id(2) has answered with the loaded
\* config, with no read.
C40_Witness ==
    /\ result # None
    /\ Val(result).call = "get_by_id"
    /\ Val(result).value.ret # None
    /\ Val(Val(result).value.ret).ups_id = 2
    /\ Val(result).value.db_reads = 0
    /\ UPSDevice_get_by_id(ups_devices, 2) = None

====
